---- MODULE Spec2Model ----
(***************************************************************************)
(* A model of the dolt table adapter (sqle tables.go), its partitioning    *)
(* and partition iterator, and of the prolly address-map message codec     *)
(* (go/store/prolly/message/address_map.go).                               *)
(*                                                                         *)
(* The module holds several specifications over one set of variables; each *)
(* specification moves its own group of variables and leaves the other     *)
(* groups at their idle values.                                            *)
(*   SpecPart  : partitionsFromRows / partitionsFromTableRows              *)
(*   SpecIter  : doltTablePartitionIter.Next under concurrent goroutines   *)
(*   SpecCodec : AddressMapSerializer.Serialize, the getAddressMap*        *)
(*               accessors and walkAddressMapAddresses                     *)
(***************************************************************************)
EXTENDS Integers, Sequences, FiniteSets, TLC

(***************************************************************************)
(* Bounds of the model.                                                    *)
(***************************************************************************)

\* uint64 arithmetic is modelled with a scaled word: values 0..MaxUint64,
\* wrapping modulo MaxUint64 + 1, so that the wrap of (R / M) + 1 at the
\* largest row count is reachable.
MaxUint64 == 47

\* largest runtime.NumCPU() drawn
MaxCPU == 3

\* goroutines calling Next on one iterator, and calls made by each
NumGoroutines == 2

MaxCalls == 3

\* largest number of partitions held by the iterator of SpecIter
MaxPartitions == 3

\* most keys / addresses / subtree counts handed to Serialize
MaxItems == 2

\* most nodes built in a tree of SpecTree
MaxNodes == 4

\* most rows in the table of SpecTable, and operations made on it
MaxRows == 1

MaxOps == 2

\* foreign-key operations made in SpecFk
MaxFkOps == 1

\* largest small tree level drawn (levels past the uint8 range are drawn too)
MaxLevel == 2

\* getTableEditor calls made on the table values
MaxEdCalls == 3

\* DoltTable values made with LockedToRoot and WithProjections
MaxAdapters == 2

\* ModifyColumn calls made, rows of the table they alter, largest value stored
MaxModOps == 1

MaxModRows == 2

MaxModValue == 2

\* CreateIndex calls made
MaxIndexOps == 1

\* indexes of a schema findIndexWithPrefix is given
MaxIndexes == 3

\* largest number at the end of an existing constraint name
MaxSuffix == 1

\* GetIndexes calls made
MaxGets == 2

(***************************************************************************)
(* Program constants.                                                      *)
(***************************************************************************)

partitionMultiplier == 2

\* hash.ByteLen, and the package's addrSize
ByteLen == 20

addrSize == 20

\* the package variable MinRowsPerPartition, at the value init() gives it
\* under test; partitionsFromTableRows does not read it
MinRowsPerPartition == 2

VARIABLES
    \* ---- partitioning (SpecPart)
    numElements,          \* rows.Count()
    MaxRowsPerPartition,  \* the package variable
    numCPU,               \* runtime.NumCPU()
    partitions,           \* the returned slice (empty before the call and after a panic)
    partDone,             \* the call was made
    \* ---- partition iterator (SpecIter)
    itr,                  \* doltTablePartitionIter: [i, mu, partitions]
    gpc,                  \* per goroutine: position inside Next
    gcalls,               \* per goroutine: Next calls started
    glate,                \* per goroutine: the current call started after all partitions were handed out
    gret,                 \* per goroutine: value returned by its last completed call
    handed,               \* partitions handed out, in order of lock acquisition
    returned,             \* per goroutine: its completed calls, each <<result, started late>>
    \* ---- address-map codec (SpecCodec)
    serIn,                \* the arguments of Serialize: [keys, addrs, subtrees, level]
    msg,                  \* the serial.Message built (the fields of the AddressMap table)
    cpc,                  \* "input", "serialized", "panic", "walking", "walked"
    walkI,                \* the loop variable of walkAddressMapAddresses
    walkLog,              \* the visitor's invocations so far: [addr, err]
    walkRet,              \* what walkAddressMapAddresses returned
    \* ---- trees of address-map nodes built bottom-up (SpecTree)
    nodes,                \* the nodes built so far: [msg, keys, children, level]
    \* ---- session root and table adapter (SpecTable)
    root,                 \* the session's working root: [tables: name -> table]
    tsch,                 \* t.sch, the adapter's in-memory schema
    nbf,                  \* t.nbf, the storage format
    pending,              \* the new working root held by the editor of RewriteInserter
    last,                 \* the last operation: [op, err, before, trunc, ret]
    nops,                 \* operations made
    \* ---- foreign keys (SpecFk)
    fault,                \* the callee whose failure the last foreign-key operation met
    \* ---- system table names (SpecSys)
    sysNames,             \* the table names of the root
    sysFails,             \* the reads of the root (root.GetTableNames) that fail
    sysRet,               \* the call made and what it returned: [fn, names, err]
    \* ---- table editors of writable tables (SpecEd)
    batchMode,            \* ds.BatchMode()
    eds,                  \* per WritableDoltTable value: its ed field ("nil" or a writer)
    autoIncCol,           \* t.autoIncCol.AutoIncrement
    edLog,                \* the getTableEditor calls so far: [t, batched, asked, ret, err, before, after]
    \* ---- tables locked to a root (SpecLock)
    adapters,             \* the DoltTable values made: [dt, by, from]
    lread                 \* the read made through an adapter: [fn, t, val, err]

partVars == <<numElements, MaxRowsPerPartition, numCPU, partitions, partDone>>

iterVars == <<itr, gpc, gcalls, glate, gret, handed, returned>>

codecVars == <<serIn, msg, cpc, walkI, walkLog, walkRet>>

treeVars == <<nodes>>

tableVars == <<root, tsch, nbf, pending, last, nops>>

fkVars == <<fault>>

sysVars == <<sysNames, sysFails, sysRet>>

edVars == <<batchMode, eds, autoIncCol, edLog>>

lockVars == <<adapters, lread>>

VARIABLES
    \* ---- ModifyColumn and the auto-increment tracker (SpecModify)
    mtable,               \* the table of the session root: [cols, rows, autoInc]
    tracker,              \* the auto-increment tracker: table name -> value
    mlast,                \* the last ModifyColumn call and what it did
    mops                  \* ModifyColumn calls made

modVars == <<mtable, tracker, mlast, mops>>

VARIABLES
    \* ---- CreateIndex (SpecIndex)
    created               \* what the last CreateIndex call asked for and was given

idxVars == <<created>>

VARIABLES
    \* ---- findIndexWithPrefix (SpecFind)
    findIndexes,          \* sch.Indexes().AllIndexes(), in the order returned
    findCols,             \* prefixCols
    findRet               \* what findIndexWithPrefix returned, once called

findVars == <<findIndexes, findCols, findRet>>

VARIABLES
    \* ---- generateCheckName (SpecName)
    fkNames,              \* the names of the table's declared foreign keys
    checkNames,           \* the names of the table's checks
    genName,              \* name
    genI,                 \* i
    genPc                 \* "start", "loop", "done" (name returned), "error"

nameVars == <<fkNames, checkNames, genName, genI, genPc>>

VARIABLES
    \* ---- the session cache (SpecCache)
    indexCache,           \* the cached index lists of the table, by data cache key
    tableCache,           \* the data cache keys the session has a table cached for
    cget,                 \* the last GetIndexes call and what it returned
    ngets                 \* GetIndexes calls made

cacheVars == <<indexCache, tableCache, cget, ngets>>

\* the variables of the later sections, and their state while another
\* section runs
extVars == <<modVars, idxVars, findVars, nameVars, cacheVars>>

vars == <<partVars, iterVars, codecVars, treeVars, tableVars, fkVars, sysVars, edVars, lockVars, extVars>>

\* what the actions of one specification leave alone
PartFrame == UNCHANGED <<extVars, edVars, lockVars, fkVars, sysVars, iterVars, codecVars, treeVars, tableVars>>

IterFrame == UNCHANGED <<extVars, edVars, lockVars, fkVars, sysVars, partVars, codecVars, treeVars, tableVars>>

CodecFrame == UNCHANGED <<extVars, edVars, lockVars, fkVars, sysVars, partVars, iterVars, treeVars, tableVars>>

TreeFrame == UNCHANGED <<extVars, edVars, lockVars, fkVars, sysVars, partVars, iterVars, codecVars, tableVars>>

TableFrame == UNCHANGED <<extVars, edVars, lockVars, partVars, iterVars, codecVars, treeVars, fkVars, sysVars>>

FkFrame == UNCHANGED <<extVars, edVars, lockVars, partVars, iterVars, codecVars, treeVars, sysVars>>

SysFrame == UNCHANGED <<extVars, edVars, lockVars, partVars, iterVars, codecVars, treeVars, tableVars, fkVars>>

(***************************************************************************)
(* uint64                                                                  *)
(***************************************************************************)

U64(x) == x % (MaxUint64 + 1)

Uint64 == 0..MaxUint64

(***************************************************************************)
(* partitionsFromTableRows, partitionsFromRows                             *)
(***************************************************************************)

\* A doltTablePartition: the half-open index range [start, end).
doltTablePartition(s, e) == [start |-> s, end |-> e]

\* mutant: the last partition ends at the next multiple of itemsPerPartition
partitionsFromTableRows_LastEndRounded(rowCount, maxRows, ncpu) ==
    LET target == U64(partitionMultiplier * ncpu)
        np0    == U64((rowCount \div maxRows) + 1)
        ipp1   == rowCount \div target
        ipp    == IF np0 < target THEN (IF ipp1 = 0 THEN rowCount ELSE ipp1) ELSE maxRows
        np     == IF np0 < target
                    THEN (IF ipp1 = 0 THEN 1 ELSE U64((rowCount \div ipp) + 1))
                    ELSE np0
    IN  [i \in 1..np |-> doltTablePartition(U64((i - 1) * ipp), U64(i * ipp))]

partitionsFromTableRows(rowCount, maxRows, ncpu) ==
    LET target == U64(partitionMultiplier * ncpu)
        \* numPartitions := (numElements / itemsPerPartition) + 1
        np0    == U64((rowCount \div maxRows) + 1)
        \* itemsPerPartition = numElements / uint64(partitionMultiplier*runtime.NumCPU())
        ipp1   == rowCount \div target
        ipp    == IF np0 < target THEN (IF ipp1 = 0 THEN rowCount ELSE ipp1) ELSE maxRows
        np     == IF np0 < target
                    THEN (IF ipp1 = 0 THEN 1 ELSE U64((rowCount \div ipp) + 1))
                    ELSE np0
    IN  \* with numPartitions = 0, make([]doltTablePartition, 0) followed by
        \* partitions[numPartitions-1] panics: no slice is returned (<<>>)
        [i \in 1..np |->
            IF i < np
              THEN doltTablePartition(U64((i - 1) * ipp), U64(i * ipp))
              ELSE doltTablePartition(U64((np - 1) * ipp), rowCount)]

\* a partitionsFromRows_EmptyNone that hands an empty table no partition
partitionsFromRows_EmptyNone(rowCount, maxRows, ncpu) ==
    IF rowCount = 0
      THEN <<>>
      ELSE partitionsFromTableRows(rowCount, maxRows, ncpu)

partitionsFromRows(rowCount, maxRows, ncpu) ==
    IF rowCount = 0
      THEN <<doltTablePartition(0, 0)>>
      ELSE partitionsFromTableRows(rowCount, maxRows, ncpu)

\* the decimal digits
Digit(d) == <<"0", "1", "2", "3", "4", "5", "6", "7", "8", "9">>[d + 1]

RECURSIVE FormatUint(_)
\* strconv.FormatUint(n, 10): the decimal digits of n, without leading zeros
FormatUint(n) ==
    IF n < 10 THEN <<Digit(n)>> ELSE FormatUint(n \div 10) \o <<Digit(n % 10)>>

\* a Key_EndOnly that leaves the start out
Key_EndOnly(p) == <<" >= i < ">> \o FormatUint(p.end)

\* doltTablePartition.Key: FormatUint(start) + " >= i < " + FormatUint(end)
Key(p) == FormatUint(p.start) \o <<" >= i < ">> \o FormatUint(p.end)

PartIdle ==
    /\ numElements = 0
    /\ MaxRowsPerPartition = 1
    /\ numCPU = 1
    /\ partitions = <<>>
    /\ partDone = FALSE

PartInit ==
    /\ numElements \in Uint64
    /\ MaxRowsPerPartition \in 1..MaxUint64
    /\ numCPU \in 1..MaxCPU
    /\ partitions = <<>>
    /\ partDone = FALSE

\* Partitions -> partitionsFromRows on a table with rows
CallPartitionsFromRows ==
    /\ ~partDone
    /\ partitions' = partitionsFromRows(numElements, MaxRowsPerPartition, numCPU)
    /\ partDone' = TRUE
    /\ UNCHANGED <<numElements, MaxRowsPerPartition, numCPU>>
    /\ PartFrame

PartNext == CallPartitionsFromRows

(***************************************************************************)
(* doltTablePartitionIter                                                  *)
(***************************************************************************)

Goroutines == 1..NumGoroutines

NilPartition == doltTablePartition(-1, -1)

\* what a Next call returns: (partition, nil), (nil, io.EOF), or a panic
Ret(p) == [err |-> "nil", partition |-> p]

EOF == [err |-> "io.EOF", partition |-> NilPartition]

Panic == [err |-> "panic", partition |-> NilPartition]

NoRet == [err |-> "none", partition |-> NilPartition]

\* newDoltTablePartitionIter: {0, &sync.Mutex{}, rowData, partitions}
newDoltTablePartitionIter(ps) == [i |-> 0, mu |-> 0, partitions |-> ps]

IterIdle ==
    /\ itr = newDoltTablePartitionIter(<<>>)
    /\ gpc = [g \in Goroutines |-> "idle"]
    /\ gcalls = [g \in Goroutines |-> 0]
    /\ glate = [g \in Goroutines |-> FALSE]
    /\ gret = [g \in Goroutines |-> NoRet]
    /\ handed = <<>>
    /\ returned = [g \in Goroutines |-> <<>>]

\* The iterator holds n partitions; they are told apart by their ranges.
IterInit ==
    /\ \E n \in 0..MaxPartitions :
          itr = newDoltTablePartitionIter([k \in 1..n |-> doltTablePartition(k - 1, k)])
    /\ gpc = [g \in Goroutines |-> "idle"]
    /\ gcalls = [g \in Goroutines |-> 0]
    /\ glate = [g \in Goroutines |-> FALSE]
    /\ gret = [g \in Goroutines |-> NoRet]
    /\ handed = <<>>
    /\ returned = [g \in Goroutines |-> <<>>]

\* sync.Mutex.Lock: may be taken when no goroutine holds it
\* mutant: the lock excludes nobody
MutexFree_NoExclusion(m) == TRUE

MutexFree(m) == m = 0

\* A goroutine enters Next and blocks on itr.mu.Lock()
NextCall(g) ==
    /\ gpc[g] = "idle"
    /\ gcalls[g] < MaxCalls
    /\ gpc' = [gpc EXCEPT ![g] = "lock"]
    /\ gcalls' = [gcalls EXCEPT ![g] = @ + 1]
    /\ glate' = [glate EXCEPT ![g] = Len(handed) >= Len(itr.partitions)]
    /\ UNCHANGED <<itr, gret, handed, returned>>
    /\ IterFrame

\* itr.mu.Lock()
NextLock(g) ==
    /\ gpc[g] = "lock"
    /\ MutexFree(itr.mu)
    /\ itr' = [itr EXCEPT !.mu = g]
    /\ gpc' = [gpc EXCEPT ![g] = "check"]
    /\ UNCHANGED <<gcalls, glate, gret, handed, returned>>
    /\ IterFrame

\* if itr.i >= len(itr.partitions) { return nil, io.EOF }
NextCheck(g) ==
    /\ gpc[g] = "check"
    /\ IF itr.i >= Len(itr.partitions)
         THEN /\ gret' = [gret EXCEPT ![g] = EOF]
              /\ gpc' = [gpc EXCEPT ![g] = "unlock"]
         ELSE /\ gpc' = [gpc EXCEPT ![g] = "take"]
              /\ UNCHANGED gret
    /\ UNCHANGED <<itr, gcalls, glate, handed, returned>>
    /\ IterFrame

\* partition := itr.partitions[itr.i]
NextTake(g) ==
    /\ gpc[g] = "take"
    /\ LET r == IF itr.i < Len(itr.partitions)
                  THEN Ret(itr.partitions[itr.i + 1])
                  ELSE Panic   \* index out of range
       IN /\ gret' = [gret EXCEPT ![g] = r]
          /\ handed' = Append(handed, r.partition)
    /\ gpc' = [gpc EXCEPT ![g] = "incr"]
    /\ UNCHANGED <<itr, gcalls, glate, returned>>
    /\ IterFrame

\* itr.i++
NextIncr(g) ==
    /\ gpc[g] = "incr"
    /\ itr' = [itr EXCEPT !.i = @ + 1]
    /\ gpc' = [gpc EXCEPT ![g] = "unlock"]
    /\ UNCHANGED <<gcalls, glate, gret, handed, returned>>
    /\ IterFrame

\* the deferred itr.mu.Unlock(), and the return
NextReturn(g) ==
    /\ gpc[g] = "unlock"
    /\ itr' = [itr EXCEPT !.mu = IF @ = g THEN 0 ELSE @]
    /\ returned' = [returned EXCEPT ![g] = Append(@, <<gret[g], glate[g]>>)]
    /\ gpc' = [gpc EXCEPT ![g] = "idle"]
    /\ UNCHANGED <<gcalls, glate, gret, handed>>
    /\ IterFrame

IterNext ==
    \E g \in Goroutines :
        \/ NextCall(g)
        \/ NextLock(g)
        \/ NextCheck(g)
        \/ NextTake(g)
        \/ NextIncr(g)
        \/ NextReturn(g)

(***************************************************************************)
(* Address-map messages                                                    *)
(***************************************************************************)

RECURSIVE Flatten(_)
\* the bytes of the items, concatenated with no separator
Flatten(items) ==
    IF items = <<>> THEN <<>> ELSE Head(items) \o Flatten(Tail(items))

RECURSIVE SumSeq(_)
SumSeq(ns) == IF ns = <<>> THEN 0 ELSE Head(ns) + SumSeq(Tail(ns))

Uint16(x) == x % 65536

Uint8(x) == x % 256

\* writeItemBytes: one byte vector holding every item
writeItemBytes(items) == Flatten(items)

\* writeItemOffsets: len(items)+1 uint16 cumulative offsets, the first one 0
writeItemOffsets(items) ==
    [k \in 1..(Len(items) + 1) |-> Uint16(Len(Flatten(SubSeq(items, 1, k - 1))))]

RECURSIVE PutUvarint(_)
\* one varint: seven bits a byte, low group first, the high bit set on all
\* bytes but the last
PutUvarint(v) ==
    IF v < 128 THEN <<v>> ELSE <<128 + (v % 128)>> \o PutUvarint(v \div 128)

RECURSIVE encodeVarints(_)
encodeVarints(counts) ==
    IF counts = <<>> THEN <<>>
    ELSE PutUvarint(Head(counts)) \o encodeVarints(Tail(counts))

\* writeCountArray: the varint encoding of the counts, as a byte vector
writeCountArray(counts) == encodeVarints(counts)

RECURSIVE UvarintLen(_)
\* the bytes the first varint of buf takes (0 for an exhausted buffer)
UvarintLen(buf) ==
    IF buf = <<>> THEN 0
    ELSE IF Head(buf) < 128 THEN 1 ELSE 1 + UvarintLen(Tail(buf))

RECURSIVE Uvarint(_)
\* the value of the first varint of buf (0 for an exhausted buffer)
Uvarint(buf) ==
    IF buf = <<>> THEN 0
    ELSE IF Head(buf) < 128 THEN Head(buf)
    ELSE (Head(buf) - 128) + 128 * Uvarint(Tail(buf))

RECURSIVE decodeVarints(_, _)
\* decodeVarints(buf, counts): fills the n entries of counts from buf
decodeVarints(buf, n) ==
    IF n = 0 THEN <<>>
    ELSE <<Uvarint(buf)>>
            \o decodeVarints(SubSeq(buf, UvarintLen(buf) + 1, Len(buf)), n - 1)

sumSubtrees(subtrees) == SumSeq(subtrees)

\* ItemArray: item bytes and their offsets
ItemArray(items, offs) == [Items |-> items, Offs |-> offs]

\* ItemArray.Len
ItemArrayLen(arr) == IF Len(arr.Offs) = 0 THEN 0 ELSE Len(arr.Offs) - 1

\* a slice expression out of range (a panic in Go)
BadItem == <<-1>>

\* ItemArray.GetItem(i), i counted from 1: Items[Offs[i] : Offs[i+1]]
GetItem(arr, i) ==
    LET start == arr.Offs[i]
        stop  == arr.Offs[i + 1]
    IN  IF start <= stop /\ stop <= Len(arr.Items)
          THEN SubSeq(arr.Items, start + 1, stop)
          ELSE BadItem

\* the items an ItemArray holds, in order
ItemsOf(arr) == [i \in 1..ItemArrayLen(arr) |-> GetItem(arr, i)]

\* offsetsForAddressArray: the offsets of fixed-size addresses
offsetsForAddressArray(arr) ==
    [k \in 1..((Len(arr) \div addrSize) + 1) |-> Uint16((k - 1) * addrSize)]

\* the message of a failed assertTrue: nothing is built
NoMessage ==
    [built |-> FALSE, KeyItems |-> <<>>, KeyOffsets |-> <<>>, AddressArray |-> <<>>,
     SubtreeCounts |-> <<>>, TreeCount |-> 0, TreeLevel |-> 0]

\* mutant: the subtree counts are written for levels above 1 only
Serialize_CountsAboveLevel1(keys, addrs, subtrees, level) ==
    IF Len(keys) # Len(addrs) THEN NoMessage
    ELSE [built         |-> TRUE,
          KeyItems      |-> writeItemBytes(keys),
          KeyOffsets    |-> writeItemOffsets(keys),
          AddressArray  |-> writeItemBytes(addrs),
          SubtreeCounts |-> IF level > 1 THEN writeCountArray(subtrees) ELSE <<>>,
          TreeCount     |-> IF level > 1 THEN sumSubtrees(subtrees) ELSE Len(keys),
          TreeLevel     |-> Uint8(level)]

\* mutant: the tree count of an internal node is its number of children
Serialize_CountsChildren(keys, addrs, subtrees, level) ==
    IF Len(keys) # Len(addrs) THEN NoMessage
    ELSE [built         |-> TRUE,
          KeyItems      |-> writeItemBytes(keys),
          KeyOffsets    |-> writeItemOffsets(keys),
          AddressArray  |-> writeItemBytes(addrs),
          SubtreeCounts |-> IF level > 0 THEN writeCountArray(subtrees) ELSE <<>>,
          TreeCount     |-> Len(keys),
          TreeLevel     |-> Uint8(level)]

\* AddressMapSerializer.Serialize
Serialize(keys, addrs, subtrees, level) ==
    \* estimateAddressMapSize: assertTrue(len(keys) == len(addresses))
    IF Len(keys) # Len(addrs) THEN NoMessage
    ELSE [built         |-> TRUE,
          KeyItems      |-> writeItemBytes(keys),
          KeyOffsets    |-> writeItemOffsets(keys),
          AddressArray  |-> writeItemBytes(addrs),
          SubtreeCounts |-> IF level > 0 THEN writeCountArray(subtrees) ELSE <<>>,
          TreeCount     |-> IF level > 0 THEN sumSubtrees(subtrees) ELSE Len(keys),
          TreeLevel     |-> Uint8(level)]

getAddressMapKeyOffsets(m) == m.KeyOffsets

getAddressMapKeys(m) == ItemArray(m.KeyItems, getAddressMapKeyOffsets(m))

getAddressMapValues(m) == ItemArray(m.AddressArray, offsetsForAddressArray(m.AddressArray))

\* a getAddressMapCount_OffsetsLength that answers with the length of the
\* key-offsets vector itself
getAddressMapCount_OffsetsLength(m) == Uint16(Len(m.KeyOffsets))

\* uint16(am.KeyOffsetsLength() - 1)
getAddressMapCount(m) == Uint16(Len(m.KeyOffsets) - 1)

getAddressMapTreeLevel(m) == m.TreeLevel

getAddressMapTreeCount(m) == m.TreeCount

getAddressMapSubtrees(m) == decodeVarints(m.SubtreeCounts, getAddressMapCount(m))

(***************************************************************************)
(* Inputs of the codec                                                     *)
(***************************************************************************)

\* sequences over S of length at most n
RECURSIVE SeqsUpTo(_, _)
SeqsUpTo(S, n) ==
    IF n = 0 THEN {<<>>}
    ELSE LET shorter == SeqsUpTo(S, n - 1)
         IN  shorter \cup {Append(q, x) : q \in {r \in shorter : Len(r) = n - 1}, x \in S}

\* a well-formed address: ByteLen bytes
AddrOf(b) == [k \in 1..ByteLen |-> b]

WellFormedAddr(a) == Len(a) = ByteLen

KeyInputs == {<<>>, <<1>>, <<2, 3>>}

AddrInputs == {AddrOf(5), AddrOf(6), <<7, 7, 7>>}

\* counts of one and of two varint bytes
CountInputs == {0, 2, 300}

\* levels inside and past the uint8 range
LevelInputs == (0..MaxLevel) \cup {256, 257}

CodecIdle ==
    /\ serIn = [keys |-> <<>>, addrs |-> <<>>, subtrees |-> <<>>, level |-> 0]
    /\ msg = NoMessage
    /\ cpc = "input"
    /\ walkI = 0
    /\ walkLog = <<>>
    /\ walkRet = "none"

CodecInit ==
    /\ serIn \in [keys : SeqsUpTo(KeyInputs, MaxItems),
                  addrs : SeqsUpTo(AddrInputs, MaxItems),
                  subtrees : SeqsUpTo(CountInputs, MaxItems),
                  level : LevelInputs]
    /\ msg = NoMessage
    /\ cpc = "input"
    /\ walkI = 0
    /\ walkLog = <<>>
    /\ walkRet = "none"

CallSerialize ==
    /\ cpc = "input"
    /\ msg' = Serialize(serIn.keys, serIn.addrs, serIn.subtrees, serIn.level)
    /\ cpc' = IF msg'.built THEN "serialized" ELSE "panic"
    /\ UNCHANGED <<serIn, walkI, walkLog, walkRet>>
    /\ CodecFrame

\* walkAddressMapAddresses is entered: i := 0
WalkStart ==
    /\ cpc = "serialized"
    /\ cpc' = "walking"
    /\ walkI' = 0
    /\ UNCHANGED <<serIn, msg, walkLog, walkRet>>
    /\ CodecFrame

\* mutant: the loop stops one address short
walkCount_OneShort(arr) == IF Len(arr) \div ByteLen > 0 THEN (Len(arr) \div ByteLen) - 1 ELSE 0

\* the loop bound: len(arr)/hash.ByteLen
walkCount(arr) == Len(arr) \div ByteLen

\* mutant: the loop goes on after the visitor's error
WalkErrorStops_GoesOn(err) == FALSE

\* if err := cb(ctx, addr); err != nil { return err }
WalkErrorStops(err) == err # "nil"

\* one turn of the loop: the condition, the slice, the visitor's answer
WalkStep ==
    /\ cpc = "walking"
    /\ IF walkI < walkCount(msg.AddressArray)
         THEN \E err \in {"nil", "e1", "e2"} :
                LET addr == SubSeq(msg.AddressArray, walkI * addrSize + 1, (walkI + 1) * addrSize)
                IN  /\ walkLog' = Append(walkLog, [addr |-> addr, err |-> err])
                    /\ IF WalkErrorStops(err)
                         THEN /\ walkRet' = err
                              /\ cpc' = "walked"
                              /\ UNCHANGED walkI
                         ELSE /\ walkI' = walkI + 1
                              /\ UNCHANGED <<walkRet, cpc>>
         ELSE /\ walkRet' = "nil"
              /\ cpc' = "walked"
              /\ UNCHANGED <<walkI, walkLog>>
    /\ UNCHANGED <<serIn, msg>>
    /\ CodecFrame

CodecNext ==
    \/ CallSerialize
    \/ WalkStart
    \/ WalkStep

(***************************************************************************)
(* Trees of address-map nodes, built bottom-up                             *)
(***************************************************************************)

\* the address of the k-th node built
NodeAddr(k) == AddrOf(k)

\* the non-empty increasing sequences over 1..n of length at most MaxItems:
\* the children of a new internal node, in key order
RECURSIVE IncreasingSeqs(_, _)
IncreasingSeqs(lo, n) ==
    {<<>>} \cup UNION {{<<k>> \o q : q \in IncreasingSeqs(k + 1, n)} : k \in lo..n}

ChildLists(n) == {q \in IncreasingSeqs(1, n) : Len(q) \in 1..MaxItems}

TreeIdle == nodes = <<>>

TreeInit == nodes = <<>>

\* a level-0 node over some keys
BuildLeaf ==
    /\ Len(nodes) < MaxNodes
    /\ \E keys \in {SubSeq(<<<<1>>, <<2, 3>>, <<4>>, <<5>>, <<6>>>>, 1, n) : n \in 0..MaxItems} :
          LET addrs == [k \in 1..Len(keys) |-> AddrOf(0)]
          IN  nodes' = Append(nodes,
                   [msg      |-> Serialize(keys, addrs, <<>>, 0),
                    keys     |-> keys,
                    children |-> <<>>,
                    level    |-> 0])
    /\ TreeFrame

\* a node one level above its children: a key and an address for each child,
\* and as its subtree count the child's own tree count
BuildInternal ==
    /\ Len(nodes) < MaxNodes
    /\ \E cs \in ChildLists(Len(nodes)) :
          /\ \A k \in 1..Len(cs) : nodes[cs[k]].level = nodes[cs[1]].level
          /\ LET keys     == [k \in 1..Len(cs) |-> <<cs[k]>>]
                 addrs    == [k \in 1..Len(cs) |-> NodeAddr(cs[k])]
                 subtrees == [k \in 1..Len(cs) |-> getAddressMapTreeCount(nodes[cs[k]].msg)]
                 level    == nodes[cs[1]].level + 1
             IN  nodes' = Append(nodes,
                      [msg      |-> Serialize(keys, addrs, subtrees, level),
                       keys     |-> keys,
                       children |-> cs,
                       level    |-> level])
    /\ TreeFrame

TreeNext ==
    \/ BuildLeaf
    \/ BuildInternal

(***************************************************************************)
(* The session root and the table adapter (SpecTable).                     *)
(*                                                                         *)
(* A root value maps table names to tables.  A table holds a schema, a row *)
(* tree, an index set (index name -> index tree) and an optional           *)
(* auto-increment value.  A tree is modelled by the set of row keys it     *)
(* holds.  The adapter is the AlterableDoltTable for tableName; it keeps   *)
(* its own in-memory schema t.sch next to the session's root.              *)
(***************************************************************************)

TableNames == {"t", "u"}

\* t.tableName
tableName == "t"

RowKeys == 1..MaxRows

\* ---- schema.Schema

Schema(cols, indexes, checks) ==
    [cols |-> cols, indexes |-> indexes, checks |-> checks]

Index(name, cols) == [name |-> name, cols |-> cols]

\* index.ColumnNames()
IndexColumnNames(index) == {index.cols[k] : k \in 1..Len(index.cols)}

\* sch.Indexes().AllIndexes(), by name
IndexNamesOf(sch) == {i.name : i \in sch.indexes}

\* sch.Indexes().IndexesWithColumn(columnName)
IndexesWithColumn(sch, columnName) ==
    {i \in sch.indexes : columnName \in IndexColumnNames(i)}

\* sch.Indexes().RemoveIndex(name), for a name the collection holds
IndexesRemoveIndex(sch, name) ==
    [sch EXCEPT !.indexes = {i \in sch.indexes : i.name # name}]

\* sch.Indexes().RenameIndex(from, to), for a legal renaming
IndexesRenameIndex(sch, from, to) ==
    [sch EXCEPT !.indexes =
        {IF i.name = from THEN Index(to, i.cols) ELSE i : i \in sch.indexes}]

\* sch.Indexes().AddIndexByColNames(name, cols, props)
AddIndexByColNames(sch, name, cols) ==
    [sch EXCEPT !.indexes =
        {i \in sch.indexes : i.name # name} \cup {Index(name, cols)}]

\* schema.CopyIndexes(from, to)
CopyIndexes(from, to) == [to EXCEPT !.indexes = from.indexes]

\* schema.CopyChecksConstraints(from, to)
CopyChecksConstraints(from, to) == [to EXCEPT !.checks = from.checks]

\* sch.Checks().AddCheck(name, ...), for a name the collection lacks
ChecksAddCheck(sch, name) == [sch EXCEPT !.checks = sch.checks \cup {name}]

\* sch.Checks().DropCheck(name), for a name the collection holds
ChecksDropCheck(sch, name) == [sch EXCEPT !.checks = sch.checks \ {name}]

\* ---- doltdb.Table

\* durable.NewEmptyIndex: the tree with no entries
empty == {}

\* the nil auto-increment value handed to NewTable
NoAutoInc == <<>>

EmptyIndexSet == [n \in {} |-> empty]

NewTable(sch, rows, idxSet, autoInc) ==
    [sch |-> sch, rows |-> rows, idx |-> idxSet, autoInc |-> autoInc]

\* idxSet.PutIndex(name, tree)
PutIndex(idxSet, name, tree) ==
    [n \in (DOMAIN idxSet) \cup {name} |-> IF n = name THEN tree ELSE idxSet[n]]

\* table.UpdateSchema(sch)
UpdateSchema(table, sch) == [table EXCEPT !.sch = sch]

\* table.DeleteIndexRowData(name): the index set without the entry
DeleteIndexRowData(table, name) ==
    [table EXCEPT !.idx = [n \in (DOMAIN table.idx) \ {name} |-> table.idx[n]]]

\* table.RenameIndexRowData(from, to): the tree of from is kept under to
RenameIndexRowData(table, from, to) ==
    IF from \notin DOMAIN table.idx
    THEN table
    ELSE [table EXCEPT !.idx =
            [n \in ((DOMAIN table.idx) \ {from}) \cup {to} |->
                IF n = to THEN table.idx[from] ELSE table.idx[n]]]

\* the *doltdb.Table of a lookup that found nothing
NilTable == NewTable(Schema({}, {}, {}), empty, EmptyIndexSet, NoAutoInc)

\* ---- doltdb.RootValue

\* root.GetTable(name): (table, ok)
GetTable(r, name) ==
    [ok |-> name \in DOMAIN r.tables,
     table |-> IF name \in DOMAIN r.tables THEN r.tables[name] ELSE NilTable]

\* root.PutTable(name, table): only the entry of name changes
PutTable(r, name, table) ==
    [r EXCEPT !.tables =
        [n \in (DOMAIN r.tables) \cup {name} |->
            IF n = name THEN table ELSE r.tables[n]]]

NoTables == [n \in {} |-> NilTable]

\* a root with no table and no foreign key
EmptyRoot == [tables |-> NoTables, fks |-> {}]

\* ---- the adapter's helpers

\* types.IsFormat_DOLT_1(t.nbf)
Formats == {"__LD_1__", "__DOLT_1__"}

IsFormat_DOLT_1(f) == f = "__DOLT_1__"

\* index names with the prefix DropIndex refuses
DoltPrefixed == {"dolt_ix"}

RECURSIVE PutIndexes(_, _, _)

\* the loop of truncate: idxSet = idxSet.PutIndex(name, tree) for every name
PutIndexes(idxSet, names, tree) ==
    IF names = {}
    THEN idxSet
    ELSE LET n == CHOOSE x \in names : TRUE
         IN  PutIndexes(PutIndex(idxSet, n, tree), names \ {n}, tree)

\* the index set truncate builds: every index of sch is put as the empty
\* tree; the entries of the prior set that sch does not name are kept
truncateIndexSet(table, sch) == PutIndexes(table.idx, IndexNamesOf(sch), empty)

truncate_KeepsAutoInc(table, sch) ==
    NewTable(sch, empty, truncateIndexSet(table, sch), table.autoInc)

truncate(table, sch) ==
    NewTable(sch, empty, truncateIndexSet(table, sch), NoAutoInc)

TruncateNewRoot_OtherName(r, newTable) ==
    PutTable(r, CHOOSE n \in TableNames : n # tableName, newTable)

\* Truncate: newRoot, err := root.PutTable(ctx, t.tableName, newTable)
TruncateNewRoot(r, newTable) == PutTable(r, tableName, newTable)

\* what an operation leaves behind: the session root, t.sch and the error
Result(r, sch, e) == [root |-> r, tsch |-> sch, err |-> e]

\* updateFromRoot(newRoot): t.sch and the error returned
updateFromRoot(newRoot, sch, failAt) ==
    LET g == GetTable(newRoot, tableName)
    IN  IF failAt = "getTable"
        THEN [tsch |-> sch, err |-> "getTable"]
        ELSE IF ~g.ok
        THEN [tsch |-> sch, err |-> "cannot find itself"]
        ELSE IF failAt = "LookupDbState"
        THEN [tsch |-> g.table.sch, err |-> "no db state found"]
        ELSE [tsch |-> g.table.sch, err |-> "nil"]

\* the tail shared by the schema-changing operations, on the table built:
\*     newRoot, err := root.PutTable(ctx, t.tableName, newTable)
\*     err = t.setRoot(ctx, newRoot)
\*     return t.updateFromRoot(ctx, newRoot)
\* r is the root read, sch the value of t.sch when the tail starts
installTable(r, newTable, sch, failAt) ==
    LET newRoot == PutTable(r, tableName, newTable)
        u == updateFromRoot(newRoot, sch, failAt)
    IN  IF failAt = "PutTable"
        THEN Result(r, sch, "PutTable")
        ELSE IF failAt = "setRoot"
        THEN Result(r, sch, "setRoot")
        ELSE Result(newRoot, u.tsch, u.err)

TailFailures == {"PutTable", "setRoot", "getTable", "LookupDbState"}

AlterFailures == {"none", "getRoot"} \cup TailFailures

TruncateFailures == {"none", "getRoot", "GetSchema", "NewEmptyIndex", "PutTable", "setRoot"}

RewriteFailures ==
    {"none", "LookupDbState", "GetHeadCommit", "NewEmptyIndex", "PutTable", "GetTableWriter"}

\* the failure points that lie after truncate has returned its table
AfterTruncate == {"none", "PutTable", "setRoot", "GetTableWriter"}

\* addColumnToTable: the schema gains the column, the data is kept
addColumnToTable(table, column) ==
    UpdateSchema(table, [table.sch EXCEPT !.cols = table.sch.cols \cup {column}])

\* dropColumn: the schema loses the column and the indexes that use it
dropColumn(table, columnName) ==
    UpdateSchema(table,
        [table.sch EXCEPT
            !.cols = table.sch.cols \ {columnName},
            !.indexes = table.sch.indexes \ IndexesWithColumn(table.sch, columnName)])

\* DropColumn's loop: DeleteIndexRowData for every index with the column
DeleteIndexesWithColumn(table, sch, columnName) ==
    LET gone == {i.name : i \in IndexesWithColumn(sch, columnName)}
    IN  [table EXCEPT !.idx = [n \in (DOMAIN table.idx) \ gone |-> table.idx[n]]]

\* the column changes RewriteInserter is called for: a column drop, a column
\* modification (old becomes new) and any other rewrite (here: new is added)
Rewrites ==
    {[kind |-> "drop", old |-> c, new |-> c] : c \in {"a", "b"}}
        \cup {[kind |-> "modify", old |-> "a", new |-> "c"],
              [kind |-> "modify", old |-> "b", new |-> "b"],
              [kind |-> "other", old |-> "c", new |-> "c"]}

\* the columns of newSchema, which the engine derives from the adapter's schema
RewriteColumns(cols, rw) ==
    IF rw.kind = "drop" THEN cols \ {rw.old}
    ELSE IF rw.kind = "modify" THEN (cols \ {rw.old}) \cup {rw.new}
    ELSE cols \cup {rw.new}

\* the inputs are those of a legal statement on the adapter's schema
RewriteLegal(cols, rw) ==
    IF rw.kind = "other"
    THEN rw.new \notin cols
    ELSE rw.old \in cols /\ (rw.new = rw.old \/ rw.new \notin cols)

\* the modify-column branch: every index of oldSch is added to newSch with
\* the old column's name replaced by the new one
RenamedIndexes(oldSch, rw) ==
    {Index(i.name,
           [k \in 1..Len(i.cols) |-> IF i.cols[k] = rw.old THEN rw.new ELSE i.cols[k]])
        : i \in oldSch.indexes}

\* a RewriteSchema_KeepsIndexes that copies the indexes and removes none
RewriteSchema_KeepsIndexes(oldSch, cols, rw) ==
    LET newSch == CopyChecksConstraints(oldSch, Schema(RewriteColumns(cols, rw), {}, {}))
        copied == CopyIndexes(oldSch, newSch)
    IN  IF rw.kind = "modify"
        THEN [newSch EXCEPT !.indexes = RenamedIndexes(oldSch, rw)]
        ELSE copied

\* the schema RewriteInserter hands to truncate
RewriteSchema(oldSch, cols, rw) ==
    LET newSch == CopyChecksConstraints(oldSch, Schema(RewriteColumns(cols, rw), {}, {}))
        copied == CopyIndexes(oldSch, newSch)
    IN  IF rw.kind = "drop"
        THEN [copied EXCEPT !.indexes = copied.indexes \ IndexesWithColumn(copied, rw.old)]
        ELSE IF rw.kind = "modify"
        THEN [newSch EXCEPT !.indexes = RenamedIndexes(oldSch, rw)]
        ELSE copied

\* ---- state

\* a nil *doltdb.RootValue; a root held in a field is the one-element sequence
NilRoot == <<>>

\* a workingRoot_IgnoresLock that always answers with the session's root
workingRoot_IgnoresLock(lockedToRoot) == root

\* DoltTable.workingRoot: the root the adapter is locked to, and the session's
\* root (getRoot) when it is locked to none
workingRoot(lockedToRoot) ==
    IF lockedToRoot = NilRoot THEN root ELSE lockedToRoot[1]

NoOp(r) == [op |-> "init", err |-> "nil", before |-> r, trunc |-> <<>>, ret |-> 0]

TableIdle ==
    /\ root = EmptyRoot
    /\ tsch = Schema({}, {}, {})
    /\ nbf = "__LD_1__"
    /\ pending = <<>>
    /\ last = NoOp(EmptyRoot)
    /\ nops = 0

\* the indexes a drawn table may have
InitIndexes == {Index("ia", <<"a">>), Index("ib", <<"a", "b">>)}

\* a table as the engine leaves it: one index tree per index of the schema,
\* holding the keys of the rows
WellFormedTable(sch, rows, autoInc) ==
    NewTable(sch, rows, [n \in IndexNamesOf(sch) |-> rows], autoInc)

OtherTable ==
    WellFormedTable(Schema({"pk", "a"}, {Index("ia", <<"a">>)}, {}), RowKeys, <<MaxRows + 1>>)

TableInit ==
    \E ixs \in SUBSET InitIndexes, n \in 0..MaxRows,
       hasAuto \in BOOLEAN, present \in BOOLEAN, f \in Formats :
        LET sch == Schema({"pk", "a", "b"}, ixs, {"ck"})
            tbl == WellFormedTable(sch, 1..n, IF hasAuto THEN <<n + 1>> ELSE NoAutoInc)
            others == [tables |-> [x \in TableNames \ {tableName} |-> OtherTable], fks |-> {}]
            r == IF present THEN PutTable(others, tableName, tbl) ELSE others
        IN  /\ present \/ (n = 0 /\ ~hasAuto)
            /\ root = r
            /\ tsch = sch
            /\ nbf = f
            /\ pending = <<>>
            /\ last = NoOp(r)
            /\ nops = 0

\* the bookkeeping every operation ends with
Finish(op, out, trunc, ret) ==
    /\ root' = out.root
    /\ tsch' = out.tsch
    /\ last' = [op |-> op, err |-> out.err, before |-> root, trunc |-> trunc, ret |-> ret]
    /\ nops' = nops + 1
    /\ UNCHANGED nbf

Ready == nops < MaxOps /\ pending = <<>>

\* ---- operations

Truncate ==
    \E failAt \in TruncateFailures :
        /\ Ready
        /\ LET g == GetTable(workingRoot(NilRoot), tableName)
               newTable == truncate(g.table, g.table.sch)
               newRoot == TruncateNewRoot(root, newTable)
               err == IF failAt = "getRoot" THEN "getRoot"
                      ELSE IF ~g.ok THEN "table not found"
                      ELSE IF failAt = "none" THEN "nil"
                      ELSE failAt
               reached == g.ok /\ failAt \in AfterTruncate
           IN  Finish("Truncate",
                      Result(IF err = "nil" THEN newRoot ELSE root, tsch, err),
                      IF reached THEN <<newTable>> ELSE <<>>,
                      IF err = "nil" THEN Cardinality(g.table.rows) ELSE 0)
        /\ UNCHANGED pending
        /\ TableFrame

AddColumn ==
    \E column \in {"a", "c"}, isPk \in BOOLEAN, failAt \in AlterFailures :
        /\ Ready
        /\ LET g == GetTable(root, tableName)
               out == IF failAt = "getRoot" THEN Result(root, tsch, "getRoot")
                      ELSE IF isPk
                      THEN Result(root, tsch, "adding primary keys is not supported")
                      ELSE IF ~g.ok THEN Result(root, tsch, "panic")
                      ELSE IF column \in g.table.sch.cols
                      THEN Result(root, tsch, "addColumnToTable")
                      ELSE installTable(root, addColumnToTable(g.table, column), tsch, failAt)
           IN  Finish("AddColumn", out, <<>>, 0)
        /\ UNCHANGED pending
        /\ TableFrame

DropColumn ==
    \E columnName \in {"a", "b", "c"}, failAt \in AlterFailures :
        /\ Ready
        /\ LET g == GetTable(root, tableName)
               sch == g.table.sch
               updatedTable ==
                   dropColumn(DeleteIndexesWithColumn(g.table, sch, columnName), columnName)
               out == IF IsFormat_DOLT_1(nbf) THEN Result(root, tsch, "nil")
                      ELSE IF failAt = "getRoot" THEN Result(root, tsch, "getRoot")
                      ELSE IF ~g.ok THEN Result(root, tsch, "panic")
                      ELSE IF columnName \notin sch.cols
                      THEN Result(root, tsch, "column not found")
                      ELSE installTable(root, updatedTable, tsch, failAt)
           IN  Finish("DropColumn", out, <<>>, 0)
        /\ UNCHANGED pending
        /\ TableFrame

\* dropIndex: t.sch loses the index first, then the table is read and rebuilt
dropIndex(r, sch, indexName) ==
    LET g == GetTable(r, tableName)
        sch1 == IndexesRemoveIndex(sch, indexName)
    IN  IF indexName \notin IndexNamesOf(sch)
        THEN [err |-> "index not found", tsch |-> sch, table |-> NilTable]
        ELSE IF ~g.ok
        THEN [err |-> "table not found", tsch |-> sch1, table |-> NilTable]
        ELSE [err |-> "nil", tsch |-> sch1,
              table |-> DeleteIndexRowData(UpdateSchema(g.table, sch1), indexName)]

DropIndex ==
    \E indexName \in {"ia", "ib"} \cup DoltPrefixed, failAt \in AlterFailures :
        /\ Ready
        /\ LET d == dropIndex(workingRoot(NilRoot), tsch, indexName)
               out == IF indexName \in DoltPrefixed
                      THEN Result(root, tsch, "dolt internal indexes may not be dropped")
                      ELSE IF failAt = "getRoot" THEN Result(root, tsch, "getRoot")
                      ELSE IF d.err # "nil" THEN Result(root, d.tsch, d.err)
                      ELSE installTable(root, d.table, d.tsch, failAt)
           IN  Finish("DropIndex", out, <<>>, 0)
        /\ UNCHANGED pending
        /\ TableFrame

RenameIndex ==
    \E fromIndexName \in {"ia", "ib"}, toIndexName \in {"ib", "ix"},
       failAt \in AlterFailures \ {"getRoot"} :
        /\ Ready
        /\ LET g == GetTable(workingRoot(NilRoot), tableName)
               sch1 == IndexesRenameIndex(tsch, fromIndexName, toIndexName)
               newTable == RenameIndexRowData(UpdateSchema(g.table, sch1),
                                              fromIndexName, toIndexName)
               out == IF fromIndexName \notin IndexNamesOf(tsch)
                         \/ toIndexName \in IndexNamesOf(tsch)
                      THEN Result(root, tsch, "RenameIndex")
                      ELSE IF ~g.ok THEN Result(root, sch1, "table not found")
                      ELSE installTable(root, newTable, sch1, failAt)
           IN  Finish("RenameIndex", out, <<>>, 0)
        /\ UNCHANGED pending
        /\ TableFrame

CreateCheck ==
    \E name \in {"ck", "ck2"}, failAt \in AlterFailures :
        /\ Ready
        /\ LET g == GetTable(root, tableName)
               sch == g.table.sch
               out == IF failAt = "getRoot" THEN Result(root, tsch, "getRoot")
                      ELSE IF ~g.ok THEN Result(root, tsch, "panic")
                      ELSE IF name \in sch.checks THEN Result(root, tsch, "AddCheck")
                      ELSE installTable(root,
                                        UpdateSchema(g.table, ChecksAddCheck(sch, name)),
                                        tsch, failAt)
           IN  Finish("CreateCheck", out, <<>>, 0)
        /\ UNCHANGED pending
        /\ TableFrame

DropCheck ==
    \E chName \in {"ck", "ck2"}, failAt \in AlterFailures :
        /\ Ready
        /\ LET g == GetTable(root, tableName)
               sch == g.table.sch
               out == IF failAt = "getRoot" THEN Result(root, tsch, "getRoot")
                      ELSE IF ~g.ok THEN Result(root, tsch, "panic")
                      ELSE IF chName \notin sch.checks THEN Result(root, tsch, "DropCheck")
                      ELSE installTable(root,
                                        UpdateSchema(g.table, ChecksDropCheck(sch, chName)),
                                        tsch, failAt)
           IN  Finish("DropCheck", out, <<>>, 0)
        /\ UNCHANGED pending
        /\ TableFrame

\* RewriteInserter builds the truncated table and a new working root that the
\* returned editor holds; the session's root is not set here
RewriteInserter ==
    \E rw \in Rewrites, failAt \in RewriteFailures :
        /\ Ready
        /\ RewriteLegal(tsch.cols, rw)
        /\ LET g == GetTable(workingRoot(NilRoot), tableName)
               newSch == RewriteSchema(g.table.sch, tsch.cols, rw)
               dt == truncate(g.table, newSch)
               newRoot == PutTable(root, tableName, dt)
               early == failAt \in {"LookupDbState", "GetHeadCommit"}
               err == IF early THEN failAt
                      ELSE IF ~g.ok THEN "table not found"
                      ELSE IF failAt = "none" THEN "nil"
                      ELSE failAt
               reached == ~early /\ g.ok /\ failAt \in AfterTruncate
           IN  /\ Finish("RewriteInserter", Result(root, tsch, err),
                         IF reached THEN <<dt>> ELSE <<>>, 0)
               /\ pending' = IF err = "nil" THEN <<newRoot>> ELSE <<>>
        /\ TableFrame

\* the editor RewriteInserter returned is closed: it sets the session's root
\* (sess.SetRoot) to the root it was working on
CloseRewrite ==
    \E failAt \in {"none", "SetRoot"} :
        /\ pending # <<>>
        /\ root' = IF failAt = "none" THEN pending[1] ELSE root
        /\ last' = [op |-> "CloseRewrite",
                    err |-> IF failAt = "none" THEN "nil" ELSE failAt,
                    before |-> root, trunc |-> <<>>, ret |-> 0]
        /\ pending' = <<>>
        /\ UNCHANGED <<tsch, nbf, nops>>
        /\ TableFrame

TableNext ==
    \/ Truncate
    \/ AddColumn
    \/ DropColumn
    \/ DropIndex
    \/ RenameIndex
    \/ CreateCheck
    \/ DropCheck
    \/ RewriteInserter
    \/ CloseRewrite

(***************************************************************************)
(* Foreign keys (SpecFk): AddForeignKey, UpdateForeignKey, DropForeignKey  *)
(* on the session root, whose foreign-key collection is root.fks.          *)
(***************************************************************************)

FkIdle == fault = "none"

\* strings.ToLower, on the names drawn
ToLower(s) ==
    CASE s = "A" -> "a"
      [] s = "B" -> "b"
      [] s = "CHK_H" -> "chk_h"
      [] OTHER -> s

lowercaseSlice(strs) == [i \in 1..Len(strs) |-> ToLower(strs[i])]

SetMin(S) == CHOOSE x \in S : \A y \in S : x <= y

RECURSIVE visitIndexCols(_, _, _)

\* the outer loop of colsAreIndexSubset: every expr of cols marks the first
\* unvisited index column equal to it; not found ends the loop
visitIndexCols(cols, indexCols, visited) ==
    IF cols = <<>>
    THEN [found |-> TRUE, visited |-> visited]
    ELSE LET js == {j \in 1..Len(indexCols) : ~visited[j] /\ indexCols[j] = Head(cols)}
         IN  IF js = {}
             THEN [found |-> FALSE, visited |-> visited]
             ELSE visitIndexCols(Tail(cols), indexCols,
                                 [visited EXCEPT ![SetMin(js)] = TRUE])

colsAreIndexSubset(cols, indexCols) ==
    LET v == visitIndexCols(cols, indexCols, [j \in 1..Len(indexCols) |-> FALSE])
        unvisited == {i \in 1..Len(indexCols) : ~v.visited[i]}
    IN  IF Len(cols) > Len(indexCols) THEN [ok |-> FALSE, prefixCount |-> 0]
        ELSE IF ~v.found THEN [ok |-> FALSE, prefixCount |-> 0]
        ELSE IF unvisited # {} THEN [ok |-> TRUE, prefixCount |-> SetMin(unvisited) - 1]
        ELSE [ok |-> TRUE, prefixCount |-> Len(cols)]

\* the order of Go's < on the index names drawn
IndexNameOrder == <<"a", "a_b", "b", "ia", "ib", "ix", "pk">>

NameRank(name) == SetMin({k \in 1..Len(IndexNameOrder) : IndexNameOrder[k] = name})

\* an indexLess_LongestFirst that does not prefer the exact length
indexLess_LongestFirst(colLen, idxI, idxJ) ==
    IF Len(idxI.cols) # Len(idxJ.cols) THEN Len(idxI.cols) > Len(idxJ.cols)
    ELSE NameRank(idxI.name) < NameRank(idxJ.name)

\* the less function findIndexWithPrefix sorts with
indexLess(colLen, idxI, idxJ) ==
    IF Len(idxI.cols) = colLen /\ Len(idxJ.cols) # colLen THEN TRUE
    ELSE IF Len(idxI.cols) # colLen /\ Len(idxJ.cols) = colLen THEN FALSE
    ELSE IF Len(idxI.cols) # Len(idxJ.cols) THEN Len(idxI.cols) > Len(idxJ.cols)
    ELSE NameRank(idxI.name) < NameRank(idxJ.name)

\* the schema.Index of a lookup that found nothing
NilIndex == Index("", <<>>)

\* findIndexWithPrefix(sch, prefixCols): (index, ok)
findIndexWithPrefix(sch, prefixCols) ==
    LET prefix == lowercaseSlice(prefixCols)
        colLen == Len(prefix)
        indexesWithLen ==
            {idx \in sch.indexes :
                LET r == colsAreIndexSubset(prefix, lowercaseSlice(idx.cols))
                IN  r.ok /\ r.prefixCount = colLen}
    IN  IF indexesWithLen = {}
        THEN [ok |-> FALSE, index |-> NilIndex]
        ELSE [ok |-> TRUE,
              index |-> CHOOSE i \in indexesWithLen :
                            \A j \in indexesWithLen \ {i} : indexLess(colLen, i, j)]

\* the name creation.CreateIndex generates for an index without a name
GeneratedIndexName(cols) == IF Len(cols) = 1 THEN ToLower(cols[1]) ELSE "a_b"

\* creation.CreateIndex(tbl, "", cols, ...): the new index, and the table
\* with the index in its schema and the index's tree built from the rows
CreateIndexOn(table, cols) ==
    LET idx == Index(GeneratedIndexName(cols), cols)
    IN  [NewIndex |-> idx,
         NewTable |->
             [table EXCEPT
                 !.sch = [table.sch EXCEPT !.indexes = table.sch.indexes \cup {idx}],
                 !.idx = PutIndex(table.idx, idx.name, table.rows)]]

\* doltdb.ForeignKey; the column tags are stood for by the column names
ForeignKey(name, tableIndex, cols, parent, parentIndex, parentCols, ucols, upcols) ==
    [Name |-> name, TableName |-> tableName,
     TableIndex |-> tableIndex, TableColumns |-> cols,
     ReferencedTableName |-> parent,
     ReferencedTableIndex |-> parentIndex, ReferencedTableColumns |-> parentCols,
     UnresolvedFKDetails |-> [TableColumns |-> ucols, ReferencedTableColumns |-> upcols]]

\* doltFk.IsResolved()
FkIsResolved(fk) == fk.TableColumns # <<>> /\ fk.ReferencedTableColumns # <<>>

\* the foreign key both operations build for an unresolved sqlFk
UnresolvedKey(sqlFk) ==
    ForeignKey(sqlFk.Name, "", <<>>, sqlFk.ParentTable, "", <<>>,
               sqlFk.Columns, sqlFk.ParentColumns)

\* sqlFk.IsSelfReferential()
IsSelfReferential(sqlFk) == ToLower(sqlFk.Table) = ToLower(sqlFk.ParentTable)

\* fkc.GetByNameCaseInsensitive(name), as the set of keys found
FksByName(r, name) == {fk \in r.fks : ToLower(fk.Name) = ToLower(name)}

\* t.db.Name()
dbName == "db"

\* names doltdb.IsValidForeignKeyName refuses
InvalidFkNames == {"bad name"}

\* sql.ForeignKeyConstraint
SqlFk(name, database, parentTable, cols, parentCols, resolved) ==
    [Name |-> name, Database |-> database, ParentDatabase |-> dbName,
     Table |-> tableName, ParentTable |-> parentTable,
     Columns |-> cols, ParentColumns |-> parentCols, IsResolved |-> resolved]

\* the constraints drawn: resolved and unresolved ones on both tables, and
\* one each with an invalid name, another database, a missing parent table,
\* a missing column and a missing parent column
SqlFks ==
    {SqlFk(n, dbName, p, c, pc, res) :
        n \in {"fk1", "fk2"}, p \in TableNames, c \in {<<"a">>, <<"b">>},
        pc \in {<<"pk">>, <<"a">>}, res \in BOOLEAN}
    \cup {SqlFk("bad name", dbName, "u", <<"a">>, <<"a">>, TRUE),
          SqlFk("fk2", "other", "u", <<"a">>, <<"a">>, TRUE),
          SqlFk("fk2", dbName, "v", <<"a">>, <<"a">>, TRUE),
          SqlFk("fk2", dbName, "u", <<"c">>, <<"a">>, TRUE),
          SqlFk("fk2", dbName, "u", <<"a">>, <<"c">>, TRUE)}

\* sch.GetAllCols().GetByNameCaseInsensitive(col) finds every column named
HasColumns(sch, cols) ==
    \A k \in 1..Len(cols) : ToLower(cols[k]) \in {ToLower(c) : c \in sch.cols}

FkFailures ==
    {"none", "getRoot", "GetTableInsensitive", "GetTableInsensitiveParent",
     "CreateIndex", "PutTable", "CreateIndexParent", "PutTableParent",
     "GetForeignKeyCollection", "AddKeys", "PutForeignKeyCollection",
     "setRoot", "getTable", "LookupDbState"}

\* what the resolution of a constraint leaves in the operation's locals:
\* the error to return, the local root (rootNil: the nil root a failed
\* PutTable returned), the two indexes, and the failure met
Resolved(e, r, isNil, ti, ri, f) ==
    [err |-> e, root |-> r, rootNil |-> isNil,
     tableIndex |-> ti, refTableIndex |-> ri, fault |-> f]

\* the resolution returned an error
ResolveFailed(r, e, f) == Resolved(e, r, FALSE, NilIndex, NilIndex, f)

\* the branch of AddForeignKey and of UpdateForeignKey that assigns indexes
\* to a resolved constraint; r is the root read, tbl the adapter's table in
\* it, sch is t.sch.  The error of the PutTable that stores the table with
\* the new child index is assigned and never read: the operation goes on
\* with the root that call returned.
resolveForeignKey(r, tbl, sch, sqlFk, failAt) ==
    LET self == IsSelfReferential(sqlFk)
        pg == GetTable(r, sqlFk.ParentTable)
        refSch == IF self THEN sch ELSE pg.table.sch
        ti == findIndexWithPrefix(sch, sqlFk.Columns)
        child == CreateIndexOn(tbl, sqlFk.Columns)
        putFailed == ~ti.ok /\ failAt = "PutTable"
        root1 == IF ti.ok THEN r ELSE PutTable(r, tableName, child.NewTable)
        tableIndex == IF ti.ok THEN ti.index ELSE child.NewIndex
        refTbl == IF self
                  THEN (IF ti.ok THEN tbl ELSE child.NewTable)
                  ELSE pg.table
        ri == findIndexWithPrefix(refSch, sqlFk.ParentColumns)
        parent == CreateIndexOn(refTbl, sqlFk.ParentColumns)
        root2 == IF ri.ok THEN root1
                 ELSE PutTable(root1, sqlFk.ParentTable, parent.NewTable)
        refTableIndex == IF ri.ok THEN ri.index ELSE parent.NewIndex
        met == IF putFailed THEN "PutTable" ELSE "none"
    IN  IF ~HasColumns(sch, sqlFk.Columns)
        THEN ResolveFailed(r, "does not have column", "none")
        ELSE IF ~self /\ failAt = "GetTableInsensitiveParent"
        THEN ResolveFailed(r, failAt, failAt)
        ELSE IF ~self /\ ~pg.ok
        THEN ResolveFailed(r, "referenced table does not exist", "none")
        ELSE IF ~HasColumns(refSch, sqlFk.ParentColumns)
        THEN ResolveFailed(r, "does not have column", "none")
        ELSE IF ~ti.ok /\ failAt = "CreateIndex"
        THEN ResolveFailed(r, failAt, failAt)
        ELSE IF ~ri.ok /\ failAt = "CreateIndexParent"
        THEN ResolveFailed(r, failAt, failAt)
        ELSE IF ~ri.ok /\ putFailed
        THEN ResolveFailed(r, "panic", met)
        ELSE IF ~ri.ok /\ failAt = "PutTableParent"
        THEN ResolveFailed(r, failAt, failAt)
        ELSE Resolved("nil", root2, putFailed, tableIndex, refTableIndex, met)

\* an operation's outcome with the failure it met
FkResult(r, sch, e, f) == [root |-> r, tsch |-> sch, err |-> e, fault |-> f]

\* the common end: PutForeignKeyCollection, setRoot, updateFromRoot
installKeys(r, newRoot, sch, failAt) ==
    LET u == updateFromRoot(newRoot, sch, failAt)
    IN  IF failAt \in {"PutForeignKeyCollection", "setRoot"}
        THEN FkResult(r, sch, failAt, failAt)
        ELSE FkResult(newRoot, u.tsch, u.err,
                      IF u.err = "nil" THEN "none" ELSE failAt)

FkFinish(op, outcome) ==
    \E out \in {outcome} :
    /\ root' = out.root
    /\ tsch' = out.tsch
    /\ fault' = out.fault
    /\ last' = [op |-> op, err |-> out.err, before |-> root, trunc |-> <<>>, ret |-> 0]
    /\ nops' = nops + 1
    /\ UNCHANGED <<nbf, pending>>
    /\ FkFrame

AddForeignKey ==
    \E sqlFk \in SqlFks, failAt \in FkFailures :
        /\ nops < MaxFkOps
        /\ \E g \in {GetTable(root, tableName)} :
           \E res \in {resolveForeignKey(root, g.table, tsch, sqlFk, failAt)} :
           LET doltFk == IF sqlFk.IsResolved
                         THEN ForeignKey(sqlFk.Name, res.tableIndex.name, sqlFk.Columns,
                                         sqlFk.ParentTable, res.refTableIndex.name,
                                         sqlFk.ParentColumns,
                                         sqlFk.Columns, sqlFk.ParentColumns)
                         ELSE UnresolvedKey(sqlFk)
               r1 == IF sqlFk.IsResolved THEN res.root ELSE root
               newRoot == [r1 EXCEPT !.fks = r1.fks \cup {doltFk}]
               out ==
                   IF sqlFk.Name \in InvalidFkNames
                   THEN FkResult(root, tsch, "invalid foreign key name", "none")
                   ELSE IF ToLower(sqlFk.Database) # ToLower(sqlFk.ParentDatabase)
                           \/ ToLower(sqlFk.Database) # ToLower(dbName)
                   THEN FkResult(root, tsch, "only foreign keys on the same database", "none")
                   ELSE IF failAt \in {"getRoot", "GetTableInsensitive"}
                   THEN FkResult(root, tsch, failAt, failAt)
                   ELSE IF ~g.ok
                   THEN FkResult(root, tsch, "table not found", "none")
                   ELSE IF sqlFk.IsResolved /\ res.err # "nil"
                   THEN FkResult(root, tsch, res.err, res.fault)
                   ELSE IF sqlFk.IsResolved /\ res.rootNil
                   THEN FkResult(root, tsch, "panic", res.fault)
                   ELSE IF failAt = "GetForeignKeyCollection"
                   THEN FkResult(root, tsch, failAt, failAt)
                   ELSE IF failAt = "AddKeys"
                   THEN FkResult(root, tsch, failAt, failAt)
                   ELSE IF FksByName(r1, sqlFk.Name) # {}
                   THEN FkResult(root, tsch, "AddKeys", "none")
                   ELSE installKeys(root, newRoot, tsch, failAt)
           IN  FkFinish("AddForeignKey", out)

DropForeignKey ==
    \E fkName \in {"fk1", "fk2"},
       failAt \in {"none", "getRoot", "GetForeignKeyCollection",
                   "PutForeignKeyCollection", "setRoot", "getTable", "LookupDbState"} :
        /\ nops < MaxFkOps
        /\ LET found == {fk \in root.fks : fk.Name = fkName}
               newRoot == [root EXCEPT !.fks = root.fks \ found]
               out == IF failAt \in {"getRoot", "GetForeignKeyCollection"}
                      THEN FkResult(root, tsch, failAt, failAt)
                      ELSE IF found = {}
                      THEN FkResult(root, tsch, "foreign key not found", "none")
                      ELSE installKeys(root, newRoot, tsch, failAt)
           IN  FkFinish("DropForeignKey", out)

UpdateForeignKey ==
    \E fkName \in {"fk1", "fk2"}, sqlFk \in SqlFks, failAt \in FkFailures :
        /\ nops < MaxFkOps
        /\ sqlFk.Name = fkName
        /\ \E g \in {GetTable(root, tableName)} :
           \E res \in {resolveForeignKey(root, g.table, tsch, sqlFk, failAt)} :
           LET found == FksByName(root, fkName)
               old == CHOOSE fk \in found : TRUE
               moved == [old EXCEPT
                            !.TableName = sqlFk.Table,
                            !.ReferencedTableName = sqlFk.ParentTable,
                            !.UnresolvedFKDetails =
                                [TableColumns |-> sqlFk.Columns,
                                 ReferencedTableColumns |-> sqlFk.ParentColumns]]
               unresolve == FkIsResolved(moved) /\ ~sqlFk.IsResolved
               resolve == ~FkIsResolved(moved) /\ sqlFk.IsResolved
               doltFk ==
                   IF unresolve
                   THEN [moved EXCEPT !.TableIndex = "", !.TableColumns = <<>>,
                                      !.ReferencedTableIndex = "",
                                      !.ReferencedTableColumns = <<>>]
                   ELSE IF resolve
                   THEN [moved EXCEPT !.TableIndex = res.tableIndex.name,
                                      !.TableColumns = sqlFk.Columns,
                                      !.ReferencedTableIndex = res.refTableIndex.name,
                                      !.ReferencedTableColumns = sqlFk.ParentColumns]
                   ELSE moved
               r1 == IF resolve THEN res.root ELSE root
               newRoot == [r1 EXCEPT !.fks = (r1.fks \ {old}) \cup {doltFk}]
               out ==
                   IF failAt \in {"getRoot", "GetForeignKeyCollection"}
                   THEN FkResult(root, tsch, failAt, failAt)
                   ELSE IF found = {}
                   THEN FkResult(root, tsch, "foreign key not found", "none")
                   ELSE IF resolve /\ failAt = "GetTableInsensitive"
                   THEN FkResult(root, tsch, failAt, failAt)
                   ELSE IF resolve /\ ~g.ok
                   THEN FkResult(root, tsch, "table not found", "none")
                   ELSE IF resolve /\ res.err # "nil"
                   THEN FkResult(root, tsch, res.err, res.fault)
                   ELSE IF failAt = "AddKeys"
                   THEN FkResult(root, tsch, failAt, failAt)
                   ELSE IF resolve /\ res.rootNil
                   THEN FkResult(root, tsch, "panic", res.fault)
                   ELSE installKeys(root, newRoot, tsch, failAt)
           IN  FkFinish("UpdateForeignKey", out)

\* the foreign keys a drawn root may hold
InitKeys ==
    {ForeignKey("fk1", "", <<>>, "u", "", <<>>, <<"b">>, <<"a">>),
     ForeignKey("fk1", "ia", <<"a">>, "u", "ia", <<"a">>, <<"a">>, <<"a">>)}

FkInit ==
    \E ixs \in SUBSET InitIndexes, n \in 0..MaxRows, present \in BOOLEAN,
       keys \in {{}} \cup {{k} : k \in InitKeys} :
        LET sch == Schema({"pk", "a", "b"}, ixs, {})
            tbl == WellFormedTable(sch, 1..n, NoAutoInc)
            others == [tables |-> [x \in TableNames \ {tableName} |-> OtherTable],
                       fks |-> keys]
            r == IF present THEN PutTable(others, tableName, tbl) ELSE others
        IN  /\ \A k \in keys : k.TableIndex \in {""} \cup IndexNamesOf(sch)
            /\ present \/ (n = 0 /\ keys = {})
            /\ root = r
            /\ tsch = sch
            /\ nbf = "__LD_1__"
            /\ pending = <<>>
            /\ last = NoOp(r)
            /\ nops = 0
            /\ fault = "none"

FkNext ==
    \/ AddForeignKey
    \/ UpdateForeignKey
    \/ DropForeignKey

(***************************************************************************)
(* System table names (SpecSys): the name listings of package doltdb over  *)
(* the table names of a root; each listing reads them with                 *)
(* root.GetTableNames, which may fail.                                     *)
(***************************************************************************)

\* the table names a drawn root may hold
RootNames == {"t", "dolt_docs"}

\* HasDoltPrefix: strings.HasPrefix(strings.ToLower(s), DoltNamespace)
HasDoltPrefix(s) == s \in {"dolt_docs"}

generatedSystemTables ==
    {"dolt_branches", "dolt_log", "dolt_conflicts", "dolt_constraint_violations",
     "dolt_commits", "dolt_commit_ancestors", "dolt_status", "dolt_remotes"}

generatedSystemTablePrefixes ==
    {"dolt_diff_", "dolt_commit_diff_", "dolt_history_", "dolt_conflicts_",
     "dolt_constraint_violations_"}

\* pre + s, for the prefixes and names drawn
Concat(pre, s) ==
    CASE pre = "dolt_diff_" /\ s = "t" -> "dolt_diff_t"
      [] pre = "dolt_diff_" /\ s = "dolt_docs" -> "dolt_diff_dolt_docs"
      [] pre = "dolt_commit_diff_" /\ s = "t" -> "dolt_commit_diff_t"
      [] pre = "dolt_commit_diff_" /\ s = "dolt_docs" -> "dolt_commit_diff_dolt_docs"
      [] pre = "dolt_history_" /\ s = "t" -> "dolt_history_t"
      [] pre = "dolt_history_" /\ s = "dolt_docs" -> "dolt_history_dolt_docs"
      [] pre = "dolt_conflicts_" /\ s = "t" -> "dolt_conflicts_t"
      [] pre = "dolt_conflicts_" /\ s = "dolt_docs" -> "dolt_conflicts_dolt_docs"
      [] pre = "dolt_constraint_violations_" /\ s = "t" ->
             "dolt_constraint_violations_t"
      [] pre = "dolt_constraint_violations_" /\ s = "dolt_docs" ->
             "dolt_constraint_violations_dolt_docs"

\* the strings the listings can hold, in the byte order sort.Strings uses
StringOrder ==
    <<"dolt_branches", "dolt_commit_ancestors", "dolt_commit_diff_dolt_docs",
      "dolt_commit_diff_t", "dolt_commits", "dolt_conflicts",
      "dolt_conflicts_dolt_docs", "dolt_conflicts_t",
      "dolt_constraint_violations", "dolt_constraint_violations_dolt_docs",
      "dolt_constraint_violations_t", "dolt_diff_dolt_docs", "dolt_diff_t",
      "dolt_docs", "dolt_history_dolt_docs", "dolt_history_t", "dolt_log",
      "dolt_remotes", "dolt_status", "t">>

RECURSIVE sortFrom(_, _)

sortFrom(k, strs) ==
    IF k > Len(StringOrder)
    THEN <<>>
    ELSE SelectSeq(strs, LAMBDA x : x = StringOrder[k]) \o sortFrom(k + 1, strs)

\* sort.Strings
sortStrings(strs) == sortFrom(1, strs)

\* a set of strings as a slice (in sorted order, one of the orders possible)
AsSlice(S) == SelectSeq(StringOrder, LAMBDA x : x \in S)


\* what a listing returns: (names, err)
Listing(names, e) == [names |-> names, err |-> e]

\* root.GetTableNames(ctx), as the k-th read of the root in the call; fails is
\* the set of reads that fail
GetTableNames(tn, fails, k) ==
    IF k \in fails THEN Listing(<<>>, "GetTableNames") ELSE Listing(AsSlice(tn), "nil")

GetNonSystemTableNames(tn, fails, k) ==
    LET r == GetTableNames(tn, fails, k)
    IN  IF r.err # "nil" THEN Listing(<<>>, r.err)
        ELSE Listing(sortStrings(SelectSeq(r.names, LAMBDA n : ~HasDoltPrefix(n))), "nil")

GetPersistedSystemTables(tn, fails, k) ==
    LET r == GetTableNames(tn, fails, k)
    IN  IF r.err # "nil" THEN Listing(<<>>, r.err)
        ELSE Listing(SelectSeq(sortStrings(r.names), HasDoltPrefix), "nil")

GetGeneratedSystemTables(tn, fails, k) ==
    LET r == GetTableNames(tn, fails, k)
        names == {r.names[i] : i \in 1..Len(r.names)}
    IN  IF r.err # "nil" THEN Listing(<<>>, r.err)
        ELSE Listing(AsSlice(generatedSystemTables
                             \cup {Concat(pre, n) : pre \in generatedSystemTablePrefixes,
                                                    n \in names}),
                     "nil")

\* the error of GetGeneratedSystemTables is tested and then left alone: the
\* body of that if statement is empty
GetSystemTableNames(tn, fails, k) ==
    LET p == GetPersistedSystemTables(tn, fails, k)
        g == GetGeneratedSystemTables(tn, fails, k + 1)
    IN  IF p.err # "nil" THEN Listing(<<>>, p.err)
        ELSE Listing(sortStrings(p.names \o g.names), "nil")

GetAllTableNames(tn, fails, k) ==
    LET n == GetNonSystemTableNames(tn, fails, k)
        s == GetSystemTableNames(tn, fails, k + 1)
    IN  IF n.err # "nil" THEN Listing(<<>>, n.err)
        ELSE IF s.err # "nil" THEN Listing(<<>>, s.err)
        ELSE Listing(n.names \o s.names, "nil")

\* the reads of the root one call can make
Reads == 1..3

SysIdle ==
    /\ sysNames = {}
    /\ sysFails = {}
    /\ sysRet = [fn |-> "none", names |-> <<>>, err |-> "nil"]

SysInit ==
    /\ sysNames \in SUBSET RootNames
    /\ sysFails \in SUBSET Reads
    /\ sysRet = [fn |-> "none", names |-> <<>>, err |-> "nil"]

Returns(fn, r) ==
    /\ sysRet.fn = "none"
    /\ sysRet' = [fn |-> fn, names |-> r.names, err |-> r.err]
    /\ UNCHANGED <<sysNames, sysFails>>
    /\ SysFrame

CallGetNonSystemTableNames ==
    Returns("GetNonSystemTableNames", GetNonSystemTableNames(sysNames, sysFails, 1))

CallGetPersistedSystemTables ==
    Returns("GetPersistedSystemTables", GetPersistedSystemTables(sysNames, sysFails, 1))

CallGetGeneratedSystemTables ==
    Returns("GetGeneratedSystemTables", GetGeneratedSystemTables(sysNames, sysFails, 1))

CallGetSystemTableNames ==
    Returns("GetSystemTableNames", GetSystemTableNames(sysNames, sysFails, 1))

CallGetAllTableNames ==
    Returns("GetAllTableNames", GetAllTableNames(sysNames, sysFails, 1))

SysNext ==
    \/ CallGetNonSystemTableNames
    \/ CallGetPersistedSystemTables
    \/ CallGetGeneratedSystemTables
    \/ CallGetSystemTableNames
    \/ CallGetAllTableNames

(***************************************************************************)
(* Table editors of writable tables: getTableEditor and its callers        *)
(***************************************************************************)

\* the WritableDoltTable values: the adapter of t and a projection of it
EdTables == {"t", "p"}

\* the writers the write session hands out
Writers == {"w1", "w2"}

\* ds.BatchMode()
BatchModes == {"Batched", "AutoFlush"}

\* what the callees of getTableEditor do in one call: ds.LookupDbState fails,
\* GetTableWriter fails, or the write session answers with writer w
EdOutcomes ==
    {[fails |-> f, w |-> "nil"] : f \in {"LookupDbState", "GetTableWriter"}}
        \cup {[fails |-> "none", w |-> w] : w \in Writers}

\* a getTableEditor_NoReuse that asks the write session on every call
getTableEditor_NoReuse(ed, batched, outcome) ==
    IF outcome.fails = "LookupDbState"
    THEN [ret |-> "nil", err |-> "LookupDbState", ed |-> ed, asked |-> FALSE]
    ELSE IF outcome.fails = "GetTableWriter"
    THEN [ret |-> "nil", err |-> "GetTableWriter", ed |-> ed, asked |-> TRUE]
    ELSE [ret |-> outcome.w, err |-> "nil",
          ed |-> IF batched THEN outcome.w ELSE ed, asked |-> TRUE]

\* a getTableEditor_StoresUnbatched that keeps the writer in every mode
getTableEditor_StoresUnbatched(ed, batched, outcome) ==
    IF batched /\ ed # "nil"
    THEN [ret |-> ed, err |-> "nil", ed |-> ed, asked |-> FALSE]
    ELSE IF outcome.fails = "LookupDbState"
    THEN [ret |-> "nil", err |-> "LookupDbState", ed |-> ed, asked |-> FALSE]
    ELSE IF outcome.fails = "GetTableWriter"
    THEN [ret |-> "nil", err |-> "GetTableWriter", ed |-> ed, asked |-> TRUE]
    ELSE [ret |-> outcome.w, err |-> "nil", ed |-> outcome.w, asked |-> TRUE]

\* WritableDoltTable.getTableEditor: what it returns (ret, err), the value of
\* t.ed afterwards, and whether GetTableWriter was called
getTableEditor(ed, batched, outcome) ==
    IF batched /\ ed # "nil"
    THEN [ret |-> ed, err |-> "nil", ed |-> ed, asked |-> FALSE]
    ELSE IF outcome.fails = "LookupDbState"
    THEN [ret |-> "nil", err |-> "LookupDbState", ed |-> ed, asked |-> FALSE]
    ELSE IF outcome.fails = "GetTableWriter"
    THEN [ret |-> "nil", err |-> "GetTableWriter", ed |-> ed, asked |-> TRUE]
    ELSE [ret |-> outcome.w, err |-> "nil",
          ed |-> IF batched THEN outcome.w ELSE ed, asked |-> TRUE]

EdFrame ==
    UNCHANGED <<extVars, partVars, iterVars, codecVars, treeVars, tableVars, fkVars, sysVars, lockVars>>

EdIdle ==
    /\ batchMode = "AutoFlush"
    /\ eds = [t \in {"t"} |-> "nil"]
    /\ autoIncCol = FALSE
    /\ edLog = <<>>

EdInit ==
    /\ batchMode \in BatchModes
    /\ eds = [t \in {"t"} |-> "nil"]
    /\ autoIncCol \in BOOLEAN
    /\ edLog = <<>>

\* one call of getTableEditor on the table value t
EdCall(t) ==
    \E outcome \in EdOutcomes :
        \E r \in {getTableEditor(eds[t], batchMode = "Batched", outcome)} :
            /\ Len(edLog) < MaxEdCalls
            /\ eds' = [eds EXCEPT ![t] = r.ed]
            /\ edLog' = Append(edLog, [t |-> t, batched |-> batchMode = "Batched",
                                       asked |-> r.asked, ret |-> r.ret, err |-> r.err,
                                       before |-> eds[t], after |-> r.ed])
            /\ UNCHANGED <<batchMode, autoIncCol>>

Inserter == (\E t \in DOMAIN eds : EdCall(t)) /\ EdFrame

Deleter == (\E t \in DOMAIN eds : EdCall(t)) /\ EdFrame

Replacer == (\E t \in DOMAIN eds : EdCall(t)) /\ EdFrame

Updater == (\E t \in DOMAIN eds : EdCall(t)) /\ EdFrame

AutoIncrementSetter == (\E t \in DOMAIN eds : EdCall(t)) /\ EdFrame

\* without an auto-increment column the call returns before getTableEditor
GetNextAutoIncrementValue ==
    /\ autoIncCol
    /\ \E t \in DOMAIN eds : EdCall(t)
    /\ EdFrame

GetForeignKeyUpdater == (\E t \in DOMAIN eds : EdCall(t)) /\ EdFrame

\* WritableDoltTable.WithProjections: a new table value that starts with the
\* ed of the one it was made from
WritableWithProjections ==
    /\ \E t \in DOMAIN eds, p \in EdTables \ DOMAIN eds :
           eds' = [x \in DOMAIN eds \cup {p} |-> IF x = p THEN eds[t] ELSE eds[x]]
    /\ UNCHANGED <<batchMode, autoIncCol, edLog>>
    /\ EdFrame

\* the session's batch mode is changed by its owner
SetBatchMode ==
    /\ \E m \in BatchModes \ {batchMode} : batchMode' = m
    /\ UNCHANGED <<eds, autoIncCol, edLog>>
    /\ EdFrame

EdNext ==
    \/ Inserter
    \/ Deleter
    \/ Replacer
    \/ Updater
    \/ AutoIncrementSetter
    \/ GetNextAutoIncrementValue
    \/ GetForeignKeyUpdater
    \/ WritableWithProjections
    \/ SetBatchMode

(***************************************************************************)
(* DoltTable values locked to a root, and what is read through them        *)
(***************************************************************************)

\* a DoltTable value: the fields that LockedToRoot and WithProjections set
Adapter(lockedToRoot, sch, projectedCols) ==
    [lockedToRoot |-> lockedToRoot, sch |-> sch, projectedCols |-> projectedCols]

\* a DoltTable value dt of the model, with the call that made it: method by
\* on adapter from
Made(dt, by, from) == [dt |-> dt, by |-> by, from |-> from]

\* the session's own adapter, as NewDoltTable makes it
SessionAdapter == Adapter(NilRoot, tsch, <<>>)

\* adapter 0 is the session's, the others were made from it
AdapterIds == 0..Len(adapters)

AdapterAt(i) == IF i = 0 THEN SessionAdapter ELSE adapters[i].dt

\* DoltTable.DoltTable
DoltTable(t, getRootFails) ==
    IF t.lockedToRoot = NilRoot /\ getRootFails
    THEN [err |-> "getRoot", table |-> NilTable]
    ELSE LET g == GetTable(workingRoot(t.lockedToRoot), tableName)
         IN  IF g.ok THEN [err |-> "nil", table |-> g.table]
             ELSE [err |-> "table not found", table |-> NilTable]

\* DoltTable.Projections: the names of the projected columns
Projections(t) == t.projectedCols

\* DoltTable.WithProjections: a copy of t that projects the named columns its
\* schema holds
WithProjections(t, colNames) ==
    [t EXCEPT !.projectedCols =
        SelectSeq(lowercaseSlice(colNames), LAMBDA n : n \in t.sch.cols)]

\* DoltTable.LockedToRoot
LockedToRoot(t, r) ==
    LET g == GetTable(r, tableName)
    IN  IF ~g.ok THEN [err |-> "ErrTableNotFound", dt |-> <<>>]
        ELSE [err |-> "nil",
              dt |-> <<WithProjections(Adapter(<<r>>, g.table.sch, <<>>), Projections(t))>>]

\* the readers of DoltTable: each takes the table from DoltTable()
ReaderNames ==
    {"DoltTable", "numRows", "Partitions", "PartitionRows", "GetChecks",
     "HasIndex", "GetAutoIncrementValue"}

\* what reader fn makes of the table it was given
ReadOf(fn, table, projectedCols) ==
    CASE fn = "DoltTable" -> table
      [] fn = "numRows" -> Cardinality(table.rows)
      [] fn = "Partitions" ->
            partitionsFromRows(Cardinality(table.rows), MaxRowsPerPartition, numCPU)
      [] fn = "PartitionRows" -> [rows |-> table.rows, cols |-> projectedCols]
      [] fn = "GetChecks" -> table.sch.checks
      [] fn = "HasIndex" -> "ia" \in IndexNamesOf(table.sch)
      [] fn = "GetAutoIncrementValue" -> table.autoInc

\* the roots a caller can hold: the session's root now and the one before the
\* last operation
KnownRoots == {root, last.before}

\* the projection asked for: a column in another case and one the schema lacks
ColNames == {<<"A", "zz">>}

LockFrame ==
    UNCHANGED <<extVars, partVars, iterVars, codecVars, treeVars, tableVars, fkVars, sysVars, edVars>>

LockIdle == adapters = <<>> /\ lread = <<>>

\* the session starts on a root whose table t, when it has one, holds every
\* index, MaxRows rows and an auto-increment value
LockInit ==
    /\ TableInit
    /\ LET g == GetTable(root, tableName)
       IN  g.ok => /\ g.table.sch.indexes = InitIndexes
                   /\ Cardinality(g.table.rows) = MaxRows
                   /\ g.table.autoInc # NoAutoInc
    /\ ~IsFormat_DOLT_1(nbf)
    /\ adapters = <<>>
    /\ lread = <<>>

\* a reader has been called: a read changes nothing, so it is taken as the
\* last step and whatever could follow it follows the state before it
Observed == lread # <<>>

\* t.LockedToRoot(ctx, r); on a root without the table it returns
\* ErrTableNotFound and no table value
CallLockedToRoot ==
    /\ ~Observed
    /\ \E i \in AdapterIds, r \in KnownRoots :
        \E res \in {LockedToRoot(AdapterAt(i), r)} :
            /\ res.err = "nil"
            /\ Len(adapters) < MaxAdapters
            /\ adapters' = Append(adapters, Made(res.dt[1], "LockedToRoot", i))
    /\ UNCHANGED lread
    /\ LockFrame

\* t.WithProjections(colNames)
CallWithProjections ==
    /\ ~Observed
    /\ \E i \in AdapterIds, colNames \in ColNames :
        /\ Len(adapters) < MaxAdapters
        /\ adapters' = Append(adapters,
                              Made(WithProjections(AdapterAt(i), colNames), "WithProjections", i))
    /\ UNCHANGED lread
    /\ LockFrame

\* one of the readers, on any adapter
Read(fn) ==
    /\ ~Observed
    /\ \E i \in AdapterIds, getRootFails \in BOOLEAN :
        \E d \in {DoltTable(AdapterAt(i), getRootFails)} :
            lread' = <<[fn |-> fn, t |-> i, err |-> d.err,
                        val |-> IF d.err = "nil"
                                THEN <<ReadOf(fn, d.table, AdapterAt(i).projectedCols)>>
                                ELSE <<>>]>>
    /\ UNCHANGED adapters
    /\ LockFrame

CallDoltTable == Read("DoltTable")

numRows == Read("numRows")

Partitions == Read("Partitions")

PartitionRows == Read("PartitionRows")

GetChecks == Read("GetChecks")

HasIndex == Read("HasIndex")

GetAutoIncrementValue == Read("GetAutoIncrementValue")

\* the operations that move the session's root while adapters exist: the
\* calls of Truncate, DropIndex and CreateCheck that return no error
LockTruncate == ~Observed /\ Truncate /\ last'.err = "nil"

LockDropIndex == ~Observed /\ DropIndex /\ last'.err = "nil"

LockCreateCheck == ~Observed /\ CreateCheck /\ last'.err = "nil"

LockNext ==
    \/ CallLockedToRoot
    \/ CallWithProjections
    \/ CallDoltTable
    \/ numRows
    \/ Partitions
    \/ PartitionRows
    \/ GetChecks
    \/ HasIndex
    \/ GetAutoIncrementValue
    \/ LockTruncate
    \/ LockDropIndex
    \/ LockCreateCheck

(***************************************************************************)
(* ModifyColumn, getFirstAutoIncrementValue and the auto-increment tracker *)
(***************************************************************************)

\* a typeinfo.TypeInfo: its Noms kind and what else tells two types apart
TypeInfo(kind, width) == [kind |-> kind, width |-> width]

TypeInfos == {TypeInfo("Int", 32), TypeInfo("Int", 64), TypeInfo("Uint", 64)}

\* a schema.Column; id names the values the rows store for it
Column(id, name, tag, ti, auto) ==
    [id |-> id, name |-> name, tag |-> tag, ti |-> ti, auto |-> auto]

\* col.Kind
Kind(col) == col.ti.kind

\* cols.IndexOf(name): the position of the column, 0 standing for -1
IndexOf(cols, name) ==
    IF \E i \in 1..Len(cols) : cols[i].name = name
    THEN CHOOSE i \in 1..Len(cols) : cols[i].name = name
    ELSE 0

\* the largest of a non-empty set of numbers
SetMax(S) == CHOOSE x \in S : \A y \in S : y <= x

TagsOf(cols) == {cols[i].tag : i \in 1..Len(cols)}

\* root.GenerateTagsForNewColumns, for one column: a tag no column has
GenerateTag(cols) == SetMax(TagsOf(cols)) + 1

\* a modifiedTag_OnTypeChange that takes the new tag whenever the type changed
modifiedTag_OnTypeChange(existingCol, ti, generated) ==
    IF existingCol.ti # ti THEN generated ELSE existingCol.tag

\* ModifyColumn, lines 1579-1595: the tag of the modified column
modifiedTag(existingCol, ti, generated) ==
    IF existingCol.ti # ti /\ Kind(existingCol) # ti.kind
    THEN generated
    ELSE existingCol.tag

\* the tags ModifyColumn asks GenerateTagsForNewColumns for
tagsRequested(existingCol, ti) ==
    IF existingCol.ti # ti /\ Kind(existingCol) # ti.kind THEN 1 ELSE 0

\* modifyColumn(table, existingCol, col, order): col takes the place of
\* existingCol, or the first place when the order says so
modifyColumn(table, existingCol, col, order) ==
    LET i == IndexOf(table.cols, existingCol.name)
        replaced == [table.cols EXCEPT ![i] = col]
        others == SelectSeq(replaced, LAMBDA c : c.id # col.id)
    IN  [table EXCEPT !.cols = IF order = "first" THEN <<col>> \o others ELSE replaced]

\* the sql.Row the row iterator makes of a stored row: the values in the
\* order of the columns of the table it reads
RowOf(r, cols) == [i \in 1..Len(cols) |-> r[cols[i].id]]

\* getFirstAutoIncrementValue(columnName, columnType, table): table is the
\* table modifyColumn returned, columnName the name the column had before
getFirstAutoIncrementValue(columnName, table) ==
    LET colIdx == IndexOf(table.cols, columnName)
    IN  IF table.rows = {} THEN [err |-> "nil", seq |-> 1]
        ELSE IF colIdx = 0 THEN [err |-> "panic", seq |-> 0]
        ELSE [err |-> "nil",
              seq |-> SetMax({0} \cup {RowOf(r, table.cols)[colIdx] : r \in table.rows}) + 1]

\* ait.AddNewTable(name) followed by ait.Set(name, seq)
TrackerSet(tr, name, seq) ==
    [n \in (DOMAIN tr) \cup {name} |-> IF n = name THEN seq ELSE tr[n]]

ModFailures ==
    {"none", "GetWorkingSet", "GenerateTags", "modifyColumn",
     "GetAutoIncrementTracker", "PutTable", "setRoot"}

\* what a ModifyColumn call leaves: the session's table, the tracker, the error
ModOut(table, tr, e) == [table |-> table, tracker |-> tr, err |-> e]

\* AlterableDoltTable.ModifyColumn(columnName, column, order)
modifyColumnCall(table, tr, columnName, column, order, failAt) ==
    LET i == IndexOf(table.cols, columnName)
        existingCol == table.cols[i]
        needTag == tagsRequested(existingCol, column.ti) = 1
        col == Column(existingCol.id, column.name,
                      modifiedTag(existingCol, column.ti, GenerateTag(table.cols)),
                      column.ti, column.auto)
        updated == modifyColumn(table, existingCol, col, order)
        becomesAuto == ~existingCol.auto /\ col.auto
        first == getFirstAutoIncrementValue(columnName, updated)
        withSeq == IF becomesAuto THEN [updated EXCEPT !.autoInc = <<first.seq>>]
                   ELSE updated
        tr1 == IF becomesAuto THEN TrackerSet(tr, tableName, first.seq) ELSE tr
    IN  IF failAt = "GetWorkingSet" THEN ModOut(table, tr, "GetWorkingSet")
        ELSE IF i = 0 THEN ModOut(table, tr, "panic")
        ELSE IF needTag /\ failAt = "GenerateTags" THEN ModOut(table, tr, "GenerateTags")
        ELSE IF failAt = "modifyColumn" THEN ModOut(table, tr, "modifyColumn")
        ELSE IF becomesAuto /\ first.err # "nil" THEN ModOut(table, tr, first.err)
        ELSE IF becomesAuto /\ failAt = "GetAutoIncrementTracker"
        THEN ModOut(table, tr, "GetAutoIncrementTracker")
        ELSE IF failAt = "PutTable" THEN ModOut(table, tr1, "PutTable")
        ELSE IF failAt = "setRoot" THEN ModOut(table, tr1, "setRoot")
        ELSE ModOut(withSeq, tr1, "nil")

\* the rows a table of columns pk and a can hold
ModRows == [pk : 1..MaxModRows, a : 0..MaxModValue]

\* the columns asked for: a kept or renamed, of any type, auto-increment or not
ModColumns ==
    [name : {"a", "a2"}, ti : TypeInfos, auto : BOOLEAN]

ModFrame ==
    UNCHANGED <<partVars, iterVars, codecVars, treeVars, tableVars, fkVars, sysVars,
                edVars, lockVars, idxVars, findVars, nameVars, cacheVars>>

ModIdle ==
    /\ mtable = [cols |-> <<>>, rows |-> {}, autoInc |-> NoAutoInc]
    /\ tracker = <<>>
    /\ mlast = <<>>
    /\ mops = 0

\* a table of a key column and a column a, with rows of distinct keys; the
\* tracker knows no table without an auto-increment column
ModInit ==
    /\ \E rows \in SUBSET ModRows :
        /\ \A r1, r2 \in rows : r1.pk = r2.pk => r1 = r2
        /\ mtable = [cols |-> <<Column("pk", "pk", 1, TypeInfo("Int", 64), FALSE),
                                Column("a", "a", 2, TypeInfo("Int", 32), FALSE)>>,
                     rows |-> rows,
                     autoInc |-> NoAutoInc]
    /\ tracker = <<>>
    /\ mlast = <<>>
    /\ mops = 0

ModifyColumn ==
    /\ mops < MaxModOps
    /\ \E columnName \in {"a", "a2"}, column \in ModColumns,
          order \in {"none", "first"}, failAt \in ModFailures :
        \E out \in {modifyColumnCall(mtable, tracker, columnName, column, order, failAt)} :
            /\ mtable' = out.table
            /\ tracker' = out.tracker
            /\ mlast' = <<[err |-> out.err, before |-> mtable, tracker |-> tracker,
                           columnName |-> columnName, column |-> column, order |-> order,
                           generated |->
                               IF IndexOf(mtable.cols, columnName) = 0
                                  \/ failAt = "GetWorkingSet"
                               THEN 0
                               ELSE tagsRequested(
                                        mtable.cols[IndexOf(mtable.cols, columnName)],
                                        column.ti)]>>
    /\ mops' = mops + 1
    /\ ModFrame

ModNext == ModifyColumn


(***************************************************************************)
(* CreateIndex (SpecIndex): an index is created, and the foreign keys that  *)
(* used the index it replaces are pointed at the new one.                  *)
(***************************************************************************)

\* a foreign key of table child, using its index childIndex, on table parent
\* and its index parentIndex
ForeignKeyOf(name, child, childIndex, parent, parentIndex) ==
    [ForeignKey(name, childIndex, <<"a">>, parent, parentIndex, <<"a">>, <<"a">>, <<"a">>)
        EXCEPT !.TableName = child]

\* the foreign keys a drawn root may hold: on t, on u, from t to itself, and
\* wholly within u, whose index has the name of t's
IndexFks ==
    {ForeignKeyOf("fk_tu", "t", "ia", "u", "ia"),
     ForeignKeyOf("fk_ut", "u", "ia", "t", "ia"),
     ForeignKeyOf("fk_tt", "t", "ib", "t", "ia"),
     ForeignKeyOf("fk_uu", "u", "ia", "u", "ia")}

\* ret.OldIndex == nil; an index returned is the one-element sequence
NoIndex == <<>>

\* creation.CreateIndex(table, indexName, columns, isUnique, true, ...): an
\* index of the same columns that is not user-defined is replaced by the new
\* one, its tree kept under the new name
creationCreateIndex(table, indexName, columns, systemDefined) ==
    LET same == {i \in table.sch.indexes : i.cols = columns}
        new == Index(indexName, columns)
        old == CHOOSE i \in same : TRUE
    IN  IF indexName \in IndexNamesOf(table.sch)
           \/ IndexColumnNames(new) \ table.sch.cols # {}
           \/ (same # {} /\ ~systemDefined)
        THEN [err |-> "CreateIndex", OldIndex |-> NoIndex, NewIndex |-> NoIndex,
              NewTable |-> table]
        ELSE IF same # {}
        THEN [err |-> "nil", OldIndex |-> <<old>>, NewIndex |-> <<new>>,
              NewTable |->
                  RenameIndexRowData(
                      UpdateSchema(table,
                          [table.sch EXCEPT !.indexes = (table.sch.indexes \ {old}) \cup {new}]),
                      old.name, new.name)]
        ELSE [err |-> "nil", OldIndex |-> NoIndex, NewIndex |-> <<new>>,
              NewTable |->
                  [UpdateSchema(table,
                       [table.sch EXCEPT !.indexes = table.sch.indexes \cup {new}])
                      EXCEPT !.idx = PutIndex(table.idx, new.name, table.rows)]]

\* an updateForeignKeys_ChildOnly that leaves ReferencedTableIndex alone
updateForeignKeys_ChildOnly(fks, oldName, newName) ==
    {[fk EXCEPT
        !.TableIndex =
            IF tableName = fk.TableName /\ fk.TableIndex = oldName THEN newName ELSE @]
        : fk \in fks}

\* CreateIndex, lines 1747-1760: every key is removed and added again, with
\* the old index's name replaced where the key uses it for this table
updateForeignKeys(fks, oldName, newName) ==
    {[fk EXCEPT
        !.TableIndex =
            IF tableName = fk.TableName /\ fk.TableIndex = oldName THEN newName ELSE @,
        !.ReferencedTableIndex =
            IF tableName = fk.ReferencedTableName /\ fk.ReferencedTableIndex = oldName
            THEN newName ELSE @]
        : fk \in fks}

CreateIndexFailures ==
    {"none", "DoltTable", "getRoot", "GetForeignKeyCollection", "AddKeys",
     "PutForeignKeyCollection"} \cup TailFailures

\* AlterableDoltTable.CreateIndex(indexName, using, constraint, indexColumns)
createIndex(r, sch, indexName, columns, constraint, systemDefined, failAt) ==
    LET g == GetTable(workingRoot(NilRoot), tableName)
        ret == creationCreateIndex(g.table, indexName, columns, systemDefined)
        replaced == ret.OldIndex # NoIndex /\ ret.OldIndex # ret.NewIndex
        withFks == IF replaced
                   THEN [r EXCEPT !.fks =
                            updateForeignKeys(r.fks, ret.OldIndex[1].name, ret.NewIndex[1].name)]
                   ELSE r
        none == [OldIndex |-> NoIndex, NewIndex |-> NoIndex]
        fail(e) == [result |-> Result(r, sch, e), ret |-> none]
    IN  IF constraint \notin {"None", "Unique"} THEN fail("unsupported constraint")
        ELSE IF failAt = "DoltTable" THEN fail("DoltTable")
        ELSE IF ~g.ok THEN fail("table not found")
        ELSE IF ret.err # "nil" THEN fail(ret.err)
        ELSE IF failAt = "getRoot" THEN fail("getRoot")
        ELSE IF replaced
                /\ failAt \in {"GetForeignKeyCollection", "AddKeys", "PutForeignKeyCollection"}
        THEN fail(failAt)
        ELSE [result |-> installTable(withFks, ret.NewTable, sch, failAt),
              ret |-> [OldIndex |-> ret.OldIndex, NewIndex |-> ret.NewIndex]]

IdxIdle == created = <<>>

IndexFrame ==
    UNCHANGED <<partVars, iterVars, codecVars, treeVars, fkVars, sysVars, edVars,
                lockVars, modVars, findVars, nameVars, cacheVars>>

\* table t with some of the indexes ia(a) and ib(a, b), table u with ia(a),
\* and foreign keys that use the indexes there are
IndexInit ==
    /\ \E ixs \in SUBSET InitIndexes, keys \in SUBSET IndexFks :
        LET sch == Schema({"pk", "a", "b"}, ixs, {})
            tbl == WellFormedTable(sch, RowKeys, NoAutoInc)
            others == [tables |-> [x \in TableNames \ {tableName} |-> OtherTable],
                       fks |-> keys]
            r == PutTable(others, tableName, tbl)
        IN  /\ \A k \in keys :
                  /\ k.TableName = tableName => k.TableIndex \in IndexNamesOf(sch)
                  /\ k.ReferencedTableName = tableName =>
                         k.ReferencedTableIndex \in IndexNamesOf(sch)
            /\ root = r
            /\ tsch = sch
    /\ nbf = "__LD_1__"
    /\ pending = <<>>
    /\ last = NoOp(root)
    /\ nops = 0
    /\ created = <<>>

CreateIndex ==
    \E indexName \in {"ix", "ia"}, columns \in {<<"a">>, <<"a", "b">>},
       constraint \in {"None", "Unique", "Fulltext"}, systemDefined \in BOOLEAN,
       failAt \in CreateIndexFailures :
        /\ Ready
        /\ nops < MaxIndexOps
        /\ \E out \in {createIndex(root, tsch, indexName, columns, constraint,
                                   systemDefined, failAt)} :
            /\ Finish("CreateIndex", out.result, <<>>, 0)
            /\ created' = <<out.ret>>
        /\ UNCHANGED pending
        /\ IndexFrame

IndexNext == CreateIndex


(***************************************************************************)
(* findIndexWithPrefix over a list of indexes (SpecFind)                   *)
(***************************************************************************)

\* the loop of lines 2649-2656: the indexes whose first len(prefixCols)
\* columns are the lowercased prefixCols, in the order of the list
matchingIndexes(indexes, prefixCols) ==
    LET prefix == lowercaseSlice(prefixCols)
    IN  SelectSeq(indexes,
            LAMBDA idx :
                LET r == colsAreIndexSubset(prefix, lowercaseSlice(idx.cols))
                IN  r.ok /\ r.prefixCount = Len(prefix))

RECURSIVE insertSorted(_, _, _)
\* x put into the sorted list before the first element it is less than
insertSorted(colLen, sorted, x) ==
    IF sorted = <<>> THEN <<x>>
    ELSE IF indexLess(colLen, x, Head(sorted)) THEN <<x>> \o sorted
    ELSE <<Head(sorted)>> \o insertSorted(colLen, Tail(sorted), x)

RECURSIVE sortSlice(_, _)
\* sort.Slice(indexesWithLen, less), as an insertion sort
sortSlice(colLen, list) ==
    IF list = <<>> THEN <<>>
    ELSE insertSorted(colLen, sortSlice(colLen, Tail(list)), Head(list))

\* findIndexWithPrefix on the index list AllIndexes returned: (index, ok)
findIndexWithPrefixIn(indexes, prefixCols) ==
    LET indexesWithLen == matchingIndexes(indexes, prefixCols)
        sortedIndexes == sortSlice(Len(prefixCols), indexesWithLen)
    IN  IF Len(indexesWithLen) = 0
        THEN [ok |-> FALSE, index |-> NilIndex]
        ELSE [ok |-> TRUE, index |-> sortedIndexes[1]]

\* the indexes a drawn schema may have
FindPool ==
    {Index("ia", <<"a">>), Index("ib", <<"a", "b">>), Index("ix", <<"B", "a">>),
     Index("a_b", <<"A", "b", "c">>), Index("pk", <<"b", "a", "pk">>)}

\* the column lists asked for
FindCols ==
    {<<>>, <<"a">>, <<"A">>, <<"b">>, <<"c">>, <<"a", "b">>, <<"B", "a">>, <<"a", "c">>,
     <<"a", "a">>}

\* the lists of up to MaxIndexes different indexes of the pool, in any order
IndexLists ==
    UNION {{l \in [1..n -> FindPool] : \A i, j \in 1..n : i # j => l[i] # l[j]}
              : n \in 0..MaxIndexes}

FindIdle ==
    /\ findIndexes = <<>>
    /\ findCols = <<>>
    /\ findRet = <<>>

FindFrame ==
    UNCHANGED <<partVars, iterVars, codecVars, treeVars, tableVars, fkVars, sysVars,
                edVars, lockVars, modVars, idxVars, nameVars, cacheVars>>

FindInit ==
    /\ findIndexes \in IndexLists
    /\ findCols \in FindCols
    /\ findRet = <<>>

CallFindIndexWithPrefix ==
    /\ findRet = <<>>
    /\ findRet' = <<findIndexWithPrefixIn(findIndexes, findCols)>>
    /\ UNCHANGED <<findIndexes, findCols>>
    /\ FindFrame

FindNext == CallFindIndexWithPrefix


(***************************************************************************)
(* generateCheckName and constraintNameExists (SpecName)                   *)
(***************************************************************************)

\* a constraint name: its text and, for the names the loop makes, the number
\* after the last underscore
Name(text, suffix) == [text |-> text, suffix |-> suffix]

\* strings.ToLower of a name
ToLowerName(n) == Name(ToLower(n.text), n.suffix)

\* fmt.Sprintf("chk_%s", hash.String()[:8]), for the expression of the check
hashedName == Name("chk_h", <<>>)

\* fmt.Sprintf("%s_%d", hashedName, i)
Numbered(i) == Name(hashedName.text, <<i>>)

\* a constraintNameExists_CaseSensitive that compares the names as they are
constraintNameExists_CaseSensitive(name) ==
    \/ \E key \in fkNames : key = name
    \/ \E check \in checkNames : check = name

\* t.constraintNameExists(name), when both listings succeed
constraintNameExists(name) ==
    \/ \E key \in fkNames : ToLowerName(key) = ToLowerName(name)
    \/ \E check \in checkNames : ToLowerName(check) = ToLowerName(name)

\* the names a table's constraints may have
NamePool ==
    {Name("fk_other", <<>>)}
        \cup {Name(t, <<>>) : t \in {"chk_h", "CHK_H"}}
        \cup {Name(t, <<i>>) : t \in {"chk_h", "CHK_H"}, i \in 0..MaxSuffix}

NameIdle ==
    /\ fkNames = {}
    /\ checkNames = {}
    /\ genName = Name("", <<>>)
    /\ genI = 0
    /\ genPc = "start"

NameFrame ==
    UNCHANGED <<partVars, iterVars, codecVars, treeVars, tableVars, fkVars, sysVars,
                edVars, lockVars, modVars, idxVars, findVars, cacheVars>>

NameInit ==
    /\ \E existing \in SUBSET NamePool :
        /\ fkNames \in SUBSET existing
        /\ checkNames = existing \ fkNames
    /\ genName = Name("", <<>>)
    /\ genI = 0
    /\ genPc = "start"

\* generateCheckName up to the loop: name := hashedName; var i int
EnterGenerateCheckName ==
    /\ genPc = "start"
    /\ genName' = hashedName
    /\ genI' = 0
    /\ genPc' = "loop"
    /\ UNCHANGED <<fkNames, checkNames>>
    /\ NameFrame

\* one round of the loop: constraintNameExists fails, or finds the name
\* unused, or finds it used and the next name is made
TryName ==
    /\ genPc = "loop"
    /\ \E failAt \in {"none", "GetDeclaredForeignKeys", "GetChecks"} :
        IF failAt = "GetDeclaredForeignKeys"
           \/ (failAt = "GetChecks"
               /\ ~\E key \in fkNames : ToLowerName(key) = ToLowerName(genName))
        THEN /\ genPc' = "error"
             /\ genName' = Name("", <<>>)
             /\ UNCHANGED genI
        ELSE IF ~constraintNameExists(genName)
        THEN /\ genPc' = "done"
             /\ UNCHANGED <<genName, genI>>
        ELSE /\ genName' = Numbered(genI)
             /\ genI' = genI + 1
             /\ UNCHANGED genPc
    /\ UNCHANGED <<fkNames, checkNames>>
    /\ NameFrame

NameNext ==
    \/ EnterGenerateCheckName
    \/ TryName


(***************************************************************************)
(* GetIndexes and the session cache (SpecCache)                            *)
(***************************************************************************)

\* doltdb.NewDataCacheKey(r): the hash of the root value
NewDataCacheKey(r) == [hash |-> r]

\* DoltTable.DataCacheKey: (key, ok, err)
DataCacheKey(lockedToRoot, failAt) ==
    IF lockedToRoot = NilRoot /\ failAt = "getRoot"
    THEN [key |-> NewDataCacheKey(EmptyRoot), ok |-> FALSE, err |-> "getRoot"]
    ELSE IF failAt = "NewDataCacheKey"
    THEN [key |-> NewDataCacheKey(EmptyRoot), ok |-> FALSE, err |-> "NewDataCacheKey"]
    ELSE [key |-> NewDataCacheKey(workingRoot(lockedToRoot)), ok |-> TRUE, err |-> "nil"]

\* index.DoltIndexesFromTable(tbl): the indexes of the table's schema
DoltIndexesFromTable(tbl) == tbl.sch.indexes

\* CacheTableIndexes(key, name, indexes), for the table's name
CacheTableIndexes(cache, key, indexes) ==
    [k \in (DOMAIN cache) \cup {key} |-> IF k = key THEN indexes ELSE cache[k]]

\* what GetIndexes returns and the cache it leaves
GetIndexesRet(e, indexes, cache, hit) ==
    [err |-> e, indexes |-> indexes, cache |-> cache, hit |-> hit]

\* a getIndexes_AnyKey that answers from the cache whatever key the entry has
getIndexes_AnyKey(cache, lockedToRoot, failAt) ==
    LET k == DataCacheKey(lockedToRoot, failAt)
        g == GetTable(workingRoot(lockedToRoot), tableName)
    IN  IF k.err # "nil" THEN GetIndexesRet(k.err, {}, cache, FALSE)
        ELSE IF failAt = "LookupDbState" THEN GetIndexesRet("LookupDbState", {}, cache, FALSE)
        ELSE IF DOMAIN cache # {}
        THEN GetIndexesRet("nil", cache[CHOOSE x \in DOMAIN cache : TRUE], cache, TRUE)
        ELSE IF ~g.ok THEN GetIndexesRet("table not found", {}, cache, FALSE)
        ELSE IF failAt = "DoltIndexesFromTable"
        THEN GetIndexesRet("DoltIndexesFromTable", {}, cache, FALSE)
        ELSE GetIndexesRet("nil", DoltIndexesFromTable(g.table),
                           CacheTableIndexes(cache, k.key, DoltIndexesFromTable(g.table)),
                           FALSE)

\* DoltTable.GetIndexes, on the index cache of the session
getIndexes(cache, lockedToRoot, failAt) ==
    LET k == DataCacheKey(lockedToRoot, failAt)
        g == GetTable(workingRoot(lockedToRoot), tableName)
    IN  IF k.err # "nil" THEN GetIndexesRet(k.err, {}, cache, FALSE)
        ELSE IF failAt = "LookupDbState" THEN GetIndexesRet("LookupDbState", {}, cache, FALSE)
        ELSE IF k.key \in DOMAIN cache
        THEN GetIndexesRet("nil", cache[k.key], cache, TRUE)
        ELSE IF ~g.ok THEN GetIndexesRet("table not found", {}, cache, FALSE)
        ELSE IF failAt = "DoltIndexesFromTable"
        THEN GetIndexesRet("DoltIndexesFromTable", {}, cache, FALSE)
        ELSE GetIndexesRet("nil", DoltIndexesFromTable(g.table),
                           CacheTableIndexes(cache, k.key, DoltIndexesFromTable(g.table)),
                           FALSE)

\* updateFromRoot, lines 2388-2394: the table cache is cleared when the table
\* was found in the root and the db state was found
afterUpdateFromRoot(cache, out) == IF out.err = "nil" THEN {} ELSE cache

GetIndexesFailures ==
    {"none", "getRoot", "NewDataCacheKey", "LookupDbState", "DoltIndexesFromTable"}

\* the roots the session has seen besides the current one
EarlierRoots == ({last.before} \cup {k.hash : k \in DOMAIN indexCache}) \ {root}

NoIndexCache == [k \in {} |-> {}]

CacheIdle ==
    /\ indexCache = NoIndexCache
    /\ tableCache = {}
    /\ cget = <<>>
    /\ ngets = 0

CacheFrame ==
    UNCHANGED <<partVars, iterVars, codecVars, treeVars, fkVars, sysVars, edVars,
                lockVars, modVars, idxVars, findVars, nameVars>>

\* a session on a root that holds the table with some indexes; nothing is
\* cached
CacheInit ==
    /\ \E ixs \in SUBSET InitIndexes :
        LET sch == Schema({"pk", "a", "b"}, ixs, {})
            tbl == WellFormedTable(sch, RowKeys, NoAutoInc)
            others == [tables |-> [x \in TableNames \ {tableName} |-> OtherTable],
                       fks |-> {}]
        IN  /\ root = PutTable(others, tableName, tbl)
            /\ tsch = sch
    /\ nbf = "__LD_1__"
    /\ pending = <<>>
    /\ last = NoOp(root)
    /\ nops = 0
    /\ CacheIdle

\* t.GetIndexes(ctx), on a table locked to an earlier root or to none
CallGetIndexes ==
    /\ ngets < MaxGets
    /\ \E lockedToRoot \in {NilRoot} \cup {<<r>> : r \in EarlierRoots},
          failAt \in GetIndexesFailures :
        \E res \in {getIndexes(indexCache, lockedToRoot, failAt)} :
            /\ indexCache' = res.cache
            /\ cget' = <<[root |-> workingRoot(lockedToRoot), err |-> res.err,
                          indexes |-> res.indexes, hit |-> res.hit]>>
    /\ ngets' = ngets + 1
    /\ UNCHANGED <<tableVars, tableCache>>
    /\ CacheFrame

\* db.getTable caches the table it found under the key of the session's root
CacheTable ==
    /\ GetTable(root, tableName).ok
    /\ NewDataCacheKey(root) \notin tableCache
    /\ tableCache' = tableCache \cup {NewDataCacheKey(root)}
    /\ UNCHANGED <<tableVars, indexCache, cget, ngets>>
    /\ CacheFrame

\* DropIndex in a session with caches
CacheDropIndex ==
    \E indexName \in {"ia", "ib"}, failAt \in AlterFailures :
        /\ Ready
        /\ \E d \in {dropIndex(workingRoot(NilRoot), tsch, indexName)} :
            \E out \in {IF failAt = "getRoot" THEN Result(root, tsch, "getRoot")
                        ELSE IF d.err # "nil" THEN Result(root, d.tsch, d.err)
                        ELSE installTable(root, d.table, d.tsch, failAt)} :
                /\ Finish("DropIndex", out, <<>>, 0)
                /\ tableCache' = afterUpdateFromRoot(tableCache, out)
        /\ UNCHANGED <<pending, indexCache, cget, ngets>>
        /\ CacheFrame

\* CreateIndex in a session with caches
CacheCreateIndex ==
    \E columns \in {<<"a">>, <<"b">>}, failAt \in AlterFailures :
        /\ Ready
        /\ \E out \in {createIndex(root, tsch, "ix", columns, "None", FALSE, failAt)} :
            /\ Finish("CreateIndex", out.result, <<>>, 0)
            /\ tableCache' = afterUpdateFromRoot(tableCache, out.result)
        /\ UNCHANGED <<pending, indexCache, cget, ngets>>
        /\ CacheFrame

\* the session's root is set to an earlier one (a rollback, a checkout)
CacheSetRoot ==
    /\ Ready
    /\ \E r \in EarlierRoots :
        Finish("SetRoot", Result(r, tsch, "nil"), <<>>, 0)
    /\ UNCHANGED <<pending, cacheVars>>
    /\ CacheFrame

CacheNext ==
    \/ CallGetIndexes
    \/ CacheTable
    \/ CacheDropIndex
    \/ CacheCreateIndex
    \/ CacheSetRoot

ExtIdle == ModIdle /\ IdxIdle /\ FindIdle /\ NameIdle /\ CacheIdle

(***************************************************************************)
(* Specifications                                                          *)
(***************************************************************************)

InitPart == PartInit /\ IterIdle /\ CodecIdle /\ TreeIdle /\ TableIdle /\ FkIdle /\ SysIdle /\ EdIdle /\ LockIdle /\ ExtIdle

SpecPart == InitPart /\ [][PartNext]_vars

InitIter == IterInit /\ PartIdle /\ CodecIdle /\ TreeIdle /\ TableIdle /\ FkIdle /\ SysIdle /\ EdIdle /\ LockIdle /\ ExtIdle

SpecIter == InitIter /\ [][IterNext]_vars

InitCodec == CodecInit /\ PartIdle /\ IterIdle /\ TreeIdle /\ TableIdle /\ FkIdle /\ SysIdle /\ EdIdle /\ LockIdle /\ ExtIdle

SpecCodec == InitCodec /\ [][CodecNext]_vars

InitTree == TreeInit /\ PartIdle /\ IterIdle /\ CodecIdle /\ TableIdle /\ FkIdle /\ SysIdle /\ EdIdle /\ LockIdle /\ ExtIdle

SpecTree == InitTree /\ [][TreeNext]_vars

InitTable == TableInit /\ PartIdle /\ IterIdle /\ CodecIdle /\ TreeIdle /\ FkIdle /\ SysIdle /\ EdIdle /\ LockIdle /\ ExtIdle

SpecTable == InitTable /\ [][TableNext]_vars

InitFk == FkInit /\ PartIdle /\ IterIdle /\ CodecIdle /\ TreeIdle /\ SysIdle /\ EdIdle /\ LockIdle /\ ExtIdle

SpecFk == InitFk /\ [][FkNext]_vars

InitSys == SysInit /\ PartIdle /\ IterIdle /\ CodecIdle /\ TreeIdle /\ TableIdle /\ FkIdle /\ EdIdle /\ LockIdle /\ ExtIdle

SpecSys == InitSys /\ [][SysNext]_vars

InitEd == EdInit /\ PartIdle /\ IterIdle /\ CodecIdle /\ TreeIdle /\ TableIdle /\ FkIdle /\ SysIdle /\ LockIdle /\ ExtIdle

SpecEd == InitEd /\ [][EdNext]_vars

InitLock == LockInit /\ PartIdle /\ IterIdle /\ CodecIdle /\ TreeIdle /\ FkIdle /\ SysIdle /\ EdIdle /\ ExtIdle

SpecLock == InitLock /\ [][LockNext]_vars

\* the sections that run on the variables of the earlier ones, at rest
BaseIdle ==
    PartIdle /\ IterIdle /\ CodecIdle /\ TreeIdle /\ TableIdle /\ FkIdle /\ SysIdle
        /\ EdIdle /\ LockIdle

InitModify == ModInit /\ BaseIdle /\ IdxIdle /\ FindIdle /\ NameIdle /\ CacheIdle

InitIndex ==
    IndexInit /\ PartIdle /\ IterIdle /\ CodecIdle /\ TreeIdle /\ FkIdle /\ SysIdle
        /\ EdIdle /\ LockIdle /\ ModIdle /\ FindIdle /\ NameIdle /\ CacheIdle

SpecIndex == InitIndex /\ [][IndexNext]_vars

InitFind == FindInit /\ BaseIdle /\ ModIdle /\ IdxIdle /\ NameIdle /\ CacheIdle

SpecFind == InitFind /\ [][FindNext]_vars

InitName == NameInit /\ BaseIdle /\ ModIdle /\ IdxIdle /\ FindIdle /\ CacheIdle

\* the call runs to its return: no step of the loop is put off for ever
SpecName == InitName /\ [][NameNext]_vars /\ WF_vars(NameNext)

InitCache ==
    CacheInit /\ PartIdle /\ IterIdle /\ CodecIdle /\ TreeIdle /\ FkIdle /\ SysIdle
        /\ EdIdle /\ LockIdle /\ ModIdle /\ IdxIdle /\ FindIdle /\ NameIdle

SpecCache == InitCache /\ [][CacheNext]_vars

SpecModify == InitModify /\ [][ModNext]_vars

(***************************************************************************)
(* Claims                                                                  *)
(***************************************************************************)

\* The ranges of ps, in slice order, cover [0, R) with no gap and no overlap.
CoversExactly(ps, R) ==
    /\ Len(ps) >= 1
    /\ ps[1].start = 0
    /\ \A k \in 1..Len(ps) : ps[k].start <= ps[k].end
    /\ \A k \in 1..(Len(ps) - 1) : ps[k].end = ps[k + 1].start
    /\ ps[Len(ps)].end = R

\* C1: for every row count R >= 1, worker count W >= 1 and
\* MaxRowsPerPartition >= 1, the partitions of partitionsFromTableRows, in
\* slice order, start at 0, have start <= end, are contiguous and end at R.
C1_PartitionsCover ==
    (partDone /\ numElements >= 1)
        => /\ partitions = partitionsFromTableRows(numElements, MaxRowsPerPartition, numCPU)
           /\ CoversExactly(partitions, numElements)

\* C1 witness: a table split into several partitions whose last one is short
C1_Witness ==
    /\ partDone
    /\ numElements >= 1
    /\ Len(partitions) >= 3
    /\ partitions[Len(partitions)].end - partitions[Len(partitions)].start
          < partitions[1].end - partitions[1].start

\* C1 witness of the wrapped partition count: (R / M) + 1 overflows
C1_WitnessWrap ==
    /\ partDone
    /\ U64((numElements \div MaxRowsPerPartition) + 1) = 0

\* the completed calls of all goroutines: <<goroutine, call number>>
Completed == {c \in Goroutines \X (1..MaxCalls) : c[2] <= Len(returned[c[1]])}

ResultOf(c) == returned[c[1]][c[2]][1]

StartedLate(c) == returned[c[1]][c[2]][2]

\* C2: under concurrent Next calls each partition is returned by exactly one
\* call (none twice, none skipped), in slice order of lock acquisition; a
\* call started after all partitions were handed out returns io.EOF; and
\* 0 <= i <= n.
C2_EachPartitionOnce ==
    /\ itr.i \in 0..Len(itr.partitions)
    \* handed out in slice order of lock acquisition
    /\ Len(handed) <= Len(itr.partitions)
    /\ \A k \in 1..Len(handed) : handed[k] = itr.partitions[k]
    /\ \A c \in Completed :
          /\ ResultOf(c) # Panic
          /\ StartedLate(c) => ResultOf(c) = EOF
    \* none twice
    /\ \A c1, c2 \in Completed :
          (c1 # c2 /\ ResultOf(c1) # EOF) => ResultOf(c1) # ResultOf(c2)
    \* none skipped: a call returns io.EOF only after every partition was
    \* handed out, and what was handed out and completed was returned
    /\ (\E c \in Completed : ResultOf(c) = EOF) => Len(handed) = Len(itr.partitions)
    /\ (\A g \in Goroutines : gpc[g] = "idle")
          => \A k \in 1..Len(handed) :
                \E c \in Completed : ResultOf(c) = Ret(itr.partitions[k])

\* C2 witness: all partitions were handed out, to more than one goroutine,
\* and a call that started afterwards returned io.EOF
C2_Witness ==
    /\ Len(itr.partitions) >= 2
    /\ itr.i = Len(itr.partitions)
    /\ \E c1, c2 \in Completed :
          /\ ResultOf(c1).err = "nil"
          /\ ResultOf(c2).err = "nil"
          /\ c1[1] # c2[1]
    /\ \E c \in Completed : StartedLate(c) /\ ResultOf(c) = EOF

\* a message was built from the arguments in serIn
Built == cpc \in {"serialized", "walking", "walked"}

DecodedKeys == ItemsOf(getAddressMapKeys(msg))

DecodedValues == ItemsOf(getAddressMapValues(msg))

\* C3 as claimed: for every keys and addrs of equal length, every subtrees
\* and every level, decoding the message of Serialize reproduces identical
\* keys, values, subtrees and level.
C3_RoundTripAnyInput ==
    Built => /\ DecodedKeys = serIn.keys
             /\ DecodedValues = serIn.addrs
             /\ getAddressMapSubtrees(msg) = serIn.subtrees
             /\ getAddressMapTreeLevel(msg) = serIn.level

\* C3 amended: for keys and addrs of equal length (the key bytes fitting the
\* uint16 offsets) decoding reproduces the keys; it reproduces the values
\* when every address is hash.ByteLen bytes long, the level when
\* 0 <= level <= 255, and the subtrees when level > 0 and there is one
\* subtree count per key.
C3_RoundTrip ==
    (Built /\ Len(Flatten(serIn.keys)) < 65536) =>
        /\ DecodedKeys = serIn.keys
        /\ (\A k \in 1..Len(serIn.addrs) : WellFormedAddr(serIn.addrs[k]))
              => DecodedValues = serIn.addrs
        /\ serIn.level \in 0..255 => getAddressMapTreeLevel(msg) = serIn.level
        /\ (serIn.level > 0 /\ Len(serIn.subtrees) = Len(serIn.keys))
              => getAddressMapSubtrees(msg) = serIn.subtrees

\* C3 witness: an internal node of two children, keys of different lengths
\* (one empty), a two-byte varint among its subtree counts
C3_Witness ==
    /\ Built
    /\ serIn.level \in 1..255
    /\ Len(serIn.keys) = 2
    /\ serIn.keys[1] = <<>>
    /\ serIn.keys[2] = <<2, 3>>
    /\ \A k \in 1..2 : WellFormedAddr(serIn.addrs[k])
    /\ serIn.addrs[1] # serIn.addrs[2]
    /\ serIn.subtrees = <<300, 2>>
    /\ getAddressMapSubtrees(msg) = <<300, 2>>

RECURSIVE LeafEntries(_)
\* the leaf entries under the k-th node, counted over the tree itself
LeafEntries(k) ==
    IF nodes[k].level = 0 THEN Len(nodes[k].keys)
    ELSE SumSeq([c \in 1..Len(nodes[k].children) |-> LeafEntries(nodes[k].children[c])])

\* C4: the tree count recorded by Serialize is len(keys) for a level-0 node
\* and the sum of the subtree counts above; in a tree built bottom-up with
\* each child's tree count as its subtree count, the tree count of every
\* node, the root included, is the number of leaf entries under it.
C4_TreeCountIsLeafEntries ==
    \A k \in 1..Len(nodes) :
        /\ nodes[k].msg.built
        /\ nodes[k].level = 0 => getAddressMapTreeCount(nodes[k].msg) = Len(nodes[k].keys)
        /\ nodes[k].level > 0 =>
              getAddressMapTreeCount(nodes[k].msg) = SumSeq(getAddressMapSubtrees(nodes[k].msg))
        /\ getAddressMapTreeCount(nodes[k].msg) = LeafEntries(k)

\* C4 witness: a root two levels above its leaves with more leaf entries
\* than children
C4_Witness ==
    \E k \in 1..Len(nodes) :
        /\ nodes[k].level = 2
        /\ LeafEntries(k) > Len(nodes[k].keys)
        /\ LeafEntries(k) >= 3

\* the addresses the visitor was invoked with, in order of invocation
Visited == [k \in 1..Len(walkLog) |-> walkLog[k].addr]

NoVisitorError == \A k \in 1..Len(walkLog) : walkLog[k].err = "nil"

\* C5: when the visitor never returns an error, walkAddressMapAddresses
\* invokes it once for every child address of the node, the i-th call with
\* the i-th address, and then returns nil.
C5_WalkVisitsAllInOrder ==
    /\ \A k \in 1..Len(walkLog) :
          /\ k <= Len(DecodedValues)
          /\ walkLog[k].addr = DecodedValues[k]
    /\ (cpc = "walked" /\ NoVisitorError) =>
          /\ walkRet = "nil"
          /\ Visited = DecodedValues
          /\ (\A k \in 1..Len(serIn.addrs) : WellFormedAddr(serIn.addrs[k]))
                => Visited = serIn.addrs

\* C5 witness: a finished walk over two different addresses, no error
C5_Witness ==
    /\ cpc = "walked"
    /\ NoVisitorError
    /\ Len(walkLog) = 2
    /\ walkLog[1].addr # walkLog[2].addr
    /\ serIn.addrs = Visited

\* C6: when the visitor returns an error on the k-th address, the walk
\* returns that error at once: the k-th invocation is the last one.
C6_WalkFailsFast ==
    /\ \A k \in 1..Len(walkLog) :
          walkLog[k].err # "nil" =>
              /\ k = Len(walkLog)
              /\ cpc = "walked"
              /\ walkRet = walkLog[k].err
    /\ (cpc = "walked" /\ walkRet # "nil") =>
          /\ Len(walkLog) >= 1
          /\ walkLog[Len(walkLog)].err = walkRet

\* C6 witness: the visitor failed on the first of two addresses and the
\* second was never visited
C6_Witness ==
    /\ cpc = "walked"
    /\ walkRet = "e2"
    /\ Len(walkLog) = 1
    /\ Len(DecodedValues) = 2

\* the table returned by the last call of truncate, if the last operation made one
Truncated == {last.trunc[k] : k \in 1..Len(last.trunc)}

\* the index trees of a table that its schema no longer names
StaleIndexes(table) == (DOMAIN table.idx) \ IndexNamesOf(table.sch)

\* C7: the table returned by truncate(table, sch), in Truncate and in
\* RewriteInserter, has an empty row tree and every index tree present in its
\* index set is the empty tree, whatever the prior table and the schema
\* passed in, a schema without some of the prior table's indexes included.
C7_TruncateEmptiesEveryIndexTree ==
    \A table \in Truncated :
        /\ table.rows = empty
        /\ \A n \in DOMAIN table.idx : table.idx[n] = empty

\* RewriteInserter dropped an indexed column of a table with rows: the table
\* truncate returned keeps the index's tree, with its entries
C7_Witness ==
    /\ last.op = "RewriteInserter"
    /\ \E table \in Truncated :
           \E n \in StaleIndexes(table) : table.idx[n] # empty

TruncateSucceeded == last.op = "Truncate" /\ last.err = "nil"

\* C8: after a successful Truncate the table installed in the session root
\* records no auto-increment value, whatever value it recorded before.
C8_TruncateClearsAutoIncrement ==
    TruncateSucceeded =>
        /\ GetTable(root, tableName).ok
        /\ GetTable(root, tableName).table.autoInc = NoAutoInc

C8_Witness ==
    /\ TruncateSucceeded
    /\ GetTable(last.before, tableName).table.autoInc # NoAutoInc
    /\ GetTable(last.before, tableName).table.rows # empty

\* C9: a successful Truncate leaves the table's schema as it was, and the
\* new session root differs from the root read only in the entry of the
\* adapter's table name.
C9_TruncateKeepsSchemaAndOtherTables ==
    TruncateSucceeded =>
        /\ GetTable(root, tableName).table.sch = GetTable(last.before, tableName).table.sch
        /\ DOMAIN root.tables = DOMAIN last.before.tables
        /\ \A n \in (DOMAIN root.tables) \ {tableName} :
               root.tables[n] = last.before.tables[n]

C9_Witness ==
    /\ TruncateSucceeded
    /\ root # last.before
    /\ GetTable(root, tableName).table.sch.indexes # {}
    /\ \E n \in DOMAIN root.tables : n # tableName /\ root.tables[n].rows # empty

\* the root-installing operations of the adapter
RootInstallingOps ==
    {"Truncate", "AddColumn", "DropColumn", "DropIndex", "RenameIndex",
     "CreateCheck", "DropCheck"}

ReturnedError == last.op \in RootInstallingOps /\ last.err \notin {"nil", "panic"}

\* C10: when a root-installing operation of the adapter returns an error, the
\* session root is the root that was installed before the call.
C10_ErrorLeavesSessionRoot == ReturnedError => root = last.before

\* an operation set the new root and then failed in updateFromRoot
C10_Witness ==
    /\ ReturnedError
    /\ last.err \in {"getTable", "no db state found"}
    /\ root # last.before

\* the last operation was AddForeignKey or UpdateForeignKey and the PutTable
\* storing the table with the new child index failed in it
ChildIndexPutFailed ==
    last.op \in {"AddForeignKey", "UpdateForeignKey"} /\ fault = "PutTable"

\* C11: when root.PutTable fails while AddForeignKey or UpdateForeignKey
\* stores the table carrying the newly created child index, the operation
\* returns that error, installs no root and adds no foreign key.
C11_IndexPutErrorReturned ==
    ChildIndexPutFailed => (last.err = "PutTable" /\ root = last.before)

\* the failed PutTable's error was dropped and the operation went on with
\* the root that call returned
C11_Witness ==
    /\ ChildIndexPutFailed
    /\ last.err # "PutTable"

\* a lookup of GetSystemTableNames failed: the read of GetPersistedSystemTables,
\* or, that one having succeeded, the read of GetGeneratedSystemTables
\* an altering operation that read the session root and found no table of
\* the adapter's name in it
AlterLookups == {"AddColumn", "DropColumn", "CreateCheck", "DropCheck"}

LookedUpAbsentTable ==
    /\ last.op \in AlterLookups
    /\ tableName \notin DOMAIN last.before.tables
    /\ last.err # "getRoot"
    /\ ~(last.op = "DropColumn" /\ IsFormat_DOLT_1(nbf))

\* C13: an altering operation (AddColumn, DropColumn, CreateCheck, DropCheck)
\* that looks the table up by name in a root where the name is absent returns
\* a not-found error and does not go on with the absent table value
C13_AbsentTableIsNotFound ==
    LookedUpAbsentTable => last.err = "table not found"

\* the lookup found nothing and the operation went on to use the nil table
C13_Witness ==
    /\ LookedUpAbsentTable
    /\ last.op = "CreateCheck"
    /\ last.err = "panic"

SystemLookupFailed ==
    /\ sysRet.fn = "GetSystemTableNames"
    /\ (1 \in sysFails \/ 2 \in sysFails)

\* C12: GetSystemTableNames returns a non-nil error whenever either of its
\* two lookups fails, and returns no name list as a success.
C12_SystemLookupErrorReturned ==
    SystemLookupFailed => (sysRet.err # "nil" /\ sysRet.names = <<>>)

\* GetGeneratedSystemTables failed and GetSystemTableNames returned the
\* persisted names with a nil error
C12_Witness ==
    /\ SystemLookupFailed
    /\ sysRet.err = "nil"
    /\ sysRet.names = <<"dolt_docs">>


\* the calls i..j of the log were all made while the session was batched
BatchedStretch(i, j) == \A k \in i..j : edLog[k].batched

\* call j on a table value follows a successful call i on it, the session
\* batched all along
ReusePairs ==
    {p \in (1..Len(edLog)) \X (1..Len(edLog)) :
        /\ p[1] < p[2]
        /\ edLog[p[1]].t = edLog[p[2]].t
        /\ edLog[p[1]].err = "nil"
        /\ BatchedStretch(p[1], p[2])}

\* C14: while the session stays batched, every getTableEditor call on a table
\* value that follows a successful one on it returns the editor the earlier
\* call returned, without error, and does not call GetTableWriter
C14_BatchedEditorReused ==
    \A p \in ReusePairs :
        /\ edLog[p[2]].ret = edLog[p[1]].ret
        /\ edLog[p[2]].err = "nil"
        /\ ~edLog[p[2]].asked

\* three batched calls on one table value, the first of which got its writer
\* from the write session
C14_Witness ==
    /\ <<1, 2>> \in ReusePairs
    /\ <<1, 3>> \in ReusePairs
    /\ edLog[1].asked
    /\ edLog[3].ret = "w2"

\* what C15 says of one logged call, but for the writer request
EdStoredOnlyOnBatchedSuccess(c) ==
    /\ c.after # c.before => (c.batched /\ c.asked /\ c.err = "nil" /\ c.after = c.ret)
    /\ (~c.batched \/ c.err # "nil") => c.after = c.before

LockedTable(i) == GetTable(adapters[i].dt.lockedToRoot[1], tableName).table

\* the last call was a reader on an adapter made by LockedToRoot, or on a
\* projection of one
LockedRead ==
    /\ Observed
    /\ lread[1].t # 0
    /\ AdapterAt(lread[1].t).lockedToRoot # NilRoot

\* C16: whatever happened to the session's root, DoltTable(), numRows,
\* Partitions, PartitionRows, GetChecks, HasIndex and GetAutoIncrementValue on
\* a table locked to a root succeed with what the locked root's table holds,
\* and WithProjections yields a table locked to the root its receiver is
\* locked to
C16_LockedReadsUseLockedRoot ==
    /\ LockedRead =>
          /\ lread[1].err = "nil"
          /\ lread[1].val = <<ReadOf(lread[1].fn, LockedTable(lread[1].t),
                                     adapters[lread[1].t].dt.projectedCols)>>
    /\ \A i \in 1..Len(adapters) :
          adapters[i].by = "WithProjections" =>
              adapters[i].dt.lockedToRoot = AdapterAt(adapters[i].from).lockedToRoot

\* numRows through a locked adapter answers with the locked root's rows after
\* the session's table was truncated
C16_Witness ==
    /\ LockedRead
    /\ lread[1].fn = "numRows"
    /\ lread[1].val = <<MaxRows>>
    /\ GetTable(root, tableName).ok
    /\ GetTable(root, tableName).table.rows = {}


\* C17: for a table without rows partitionsFromRows returns exactly one
\* partition, and it is empty: start = 0 and end = 0
C17_EmptyTableOnePartition ==
    (partDone /\ numElements = 0) => partitions = <<doltTablePartition(0, 0)>>

\* the call was made on an empty table
C17_Witness ==
    /\ partDone
    /\ numElements = 0
    /\ Len(partitions) = 1
    /\ numCPU = MaxCPU

\* the call was made on a table of at most MinRowsPerPartition rows, the
\* threshold itself not above MaxRowsPerPartition
SmallTable ==
    /\ partDone
    /\ numElements <= MinRowsPerPartition
    /\ MinRowsPerPartition <= MaxRowsPerPartition

\* C18: a table of at most MinRowsPerPartition (and so at most
\* MaxRowsPerPartition) rows gets exactly one partition, [0, R), whatever the
\* worker count
C18_SmallTableOnePartition ==
    SmallTable => partitions = <<doltTablePartition(0, numElements)>>

\* a table of two rows on one CPU is cut into three partitions
C18_Witness ==
    /\ SmallTable
    /\ numElements = 2
    /\ numCPU = 1
    /\ Len(partitions) = 3


\* Serialize was called
Serialized == cpc # "input"

StoredCounts(m) ==
    Cardinality({k \in 1..Len(m.SubtreeCounts) : m.SubtreeCounts[k] < 128})

\* Serialize produced a message for a level above 0
InternalNodeBuilt == Serialized /\ msg.built /\ serIn.level > 0

\* C20: every message Serialize produces for level > 0 stores exactly one
\* subtree count per child address; no internal node comes out of an input
\* whose subtrees and addrs differ in length
C20_OneCountPerAddress ==
    InternalNodeBuilt =>
        /\ Len(serIn.subtrees) = Len(serIn.addrs)
        /\ StoredCounts(msg) = getAddressMapCount(msg)

\* an internal node of one child address that stores no subtree count
C20_Witness ==
    /\ InternalNodeBuilt
    /\ Len(serIn.addrs) = 1
    /\ serIn.subtrees = <<>>
    /\ StoredCounts(msg) = 0
    /\ getAddressMapCount(msg) = 1



\* a ModifyColumn call was made
Modified == mlast # <<>>

\* the column the last ModifyColumn call named, as it was before the call
ModExisting ==
    mlast[1].before.cols[IndexOf(mlast[1].before.cols, mlast[1].columnName)]

\* the same column after the call
ModResult ==
    LET i == CHOOSE i \in 1..Len(mtable.cols) : mtable.cols[i].id = ModExisting.id
    IN  mtable.cols[i]

\* the last ModifyColumn call named a column of the table and returned no error
ModSucceeded ==
    /\ Modified
    /\ mlast[1].err = "nil"

\* C21: a ModifyColumn call that succeeds leaves the column its tag and
\* generates no tag when the Noms kind is unchanged, be it a rename, a reorder
\* or a change of type within the kind; when the kind changes it generates
\* exactly one tag, one no column of the table had, and gives it to the column
C21_TagKeptUnlessKindChanges ==
    ModSucceeded =>
        /\ Kind(ModResult) = Kind(ModExisting) =>
              /\ ModResult.tag = ModExisting.tag
              /\ mlast[1].generated = 0
        /\ Kind(ModResult) # Kind(ModExisting) =>
              /\ ModResult.tag \notin TagsOf(mlast[1].before.cols)
              /\ mlast[1].generated = 1

\* a column renamed, moved first and widened within its kind kept its tag
C21_Witness ==
    /\ ModSucceeded
    /\ ModResult.name # ModExisting.name
    /\ mtable.cols[1].id = ModExisting.id
    /\ ModResult.ti # ModExisting.ti
    /\ Kind(ModResult) = Kind(ModExisting)
    /\ ModResult.tag = ModExisting.tag

\* the last call asked to make a column auto-increment that was not, and no
\* step outside ModifyColumn failed
TurnedAutoIncrement ==
    /\ Modified
    /\ IndexOf(mlast[1].before.cols, mlast[1].columnName) # 0
    /\ ~ModExisting.auto
    /\ mlast[1].column.auto
    /\ mlast[1].err \in {"nil", "panic"}

\* the largest value the rows hold for the column, zero at least
LargestStored == SetMax({0} \cup {r[ModExisting.id] : r \in mlast[1].before.rows})

\* C24: a ModifyColumn call that makes a column auto-increment records, on
\* the table and in the tracker, the largest value stored in the column plus
\* one: 1 for an empty table, more than every stored value otherwise
C24_FirstValueIsMaxPlusOne ==
    TurnedAutoIncrement =>
        /\ mlast[1].err = "nil"
        /\ mtable.autoInc = <<LargestStored + 1>>
        /\ tableName \in DOMAIN tracker
        /\ tracker[tableName] = LargestStored + 1

\* the column was renamed in the same call and the table has a row: the call
\* panics and records no value
C24_Witness ==
    /\ TurnedAutoIncrement
    /\ mlast[1].column.name # mlast[1].columnName
    /\ mlast[1].before.rows # {}
    /\ mlast[1].err = "panic"
    /\ mtable.autoInc = NoAutoInc

\* C25: a ModifyColumn call that returns an error leaves the tracker with the
\* tables and values it had before the call
C25_TrackerUnchangedOnError ==
    (Modified /\ mlast[1].err # "nil") => tracker = mlast[1].tracker

\* PutTable failed after the tracker step: the session's table is the old
\* one, the tracker holds a value for it
C25_Witness ==
    /\ Modified
    /\ mlast[1].err = "PutTable"
    /\ mtable = mlast[1].before
    /\ tableName \notin DOMAIN mlast[1].tracker
    /\ tableName \in DOMAIN tracker


\* the schema of the table before the last operation, and the schema the
\* operation made: of the table DropColumn installed, of the table
\* RewriteInserter built
SchemaBeforeDrop == GetTable(last.before, tableName).table.sch

SchemaAfterDrop ==
    IF last.op = "DropColumn"
    THEN GetTable(root, tableName).table.sch
    ELSE last.trunc[1].sch

\* the last operation succeeded and dropped columnName: a DropColumn whose
\* table lost the column, or a RewriteInserter whose new schema is the
\* adapter's schema with that one column fewer
ColumnDropped(columnName) ==
    /\ last.err = "nil"
    /\ \/ /\ last.op = "DropColumn"
          /\ GetTable(last.before, tableName).ok
          /\ columnName \in SchemaBeforeDrop.cols
          /\ SchemaAfterDrop.cols = SchemaBeforeDrop.cols \ {columnName}
       \/ /\ last.op = "RewriteInserter"
          /\ last.trunc # <<>>
          /\ columnName \in tsch.cols
          /\ SchemaAfterDrop.cols = tsch.cols \ {columnName}

C23_KeysDistinct ==
    partDone =>
        \A i, j \in 1..Len(partitions) :
            i # j => Key(partitions[i]) # Key(partitions[j])

\* a table cut into three or more partitions whose last two end at the same
\* row: the empty partition [R, R) after [.., R)
C23_Witness ==
    /\ partDone
    /\ Len(partitions) >= 3
    /\ partitions[Len(partitions)].start = partitions[Len(partitions)].end
    /\ partitions[Len(partitions) - 1].end = partitions[Len(partitions)].end
    /\ numElements >= 10


\* the last CreateIndex call replaced an index by a new one and its root was
\* installed
IndexReplaced ==
    /\ created # <<>>
    /\ created[1].OldIndex # NoIndex
    /\ created[1].OldIndex # created[1].NewIndex
    /\ root # last.before

\* fk uses the index called name for table t, as child or as parent
UsesIndex(fk, name) ==
    \/ fk.TableName = tableName /\ fk.TableIndex = name
    \/ fk.ReferencedTableName = tableName /\ fk.ReferencedTableIndex = name

\* C26: when CreateIndex replaces an index, the installed root has no
\* foreign key that uses the old index's name for this table, the foreign keys
\* have the names they had, and every key that did not use the old index is
\* there unchanged
C26_ForeignKeysFollowReplacedIndex ==
    IndexReplaced =>
        LET old == created[1].OldIndex[1].name
        IN  /\ \A fk \in root.fks : ~UsesIndex(fk, old)
            /\ {fk.Name : fk \in root.fks} = {fk.Name : fk \in last.before.fks}
            /\ Cardinality(root.fks) = Cardinality(last.before.fks)
            /\ \A fk \in last.before.fks : ~UsesIndex(fk, old) => fk \in root.fks

\* ia was replaced by ix: the key of u on t now names ix, the key within u
\* keeps u's own ia
C26_Witness ==
    /\ IndexReplaced
    /\ created[1].OldIndex[1].name = "ia"
    /\ ForeignKeyOf("fk_ut", "u", "ia", "t", "ia") \in last.before.fks
    /\ ForeignKeyOf("fk_ut", "u", "ia", "t", "ix") \in root.fks
    /\ ForeignKeyOf("fk_uu", "u", "ia", "u", "ia") \in root.fks


\* the number of positions of list that hold c, letter case aside
CountOf(list, c) == Cardinality({k \in 1..Len(list) : ToLower(list[k]) = ToLower(c)})

\* idx has the columns cols, in any order and letter case, as its first
\* len(cols) columns
HasPrefixCols(idx, cols) ==
    /\ Len(cols) <= Len(idx.cols)
    /\ \A c \in {"a", "b", "c", "pk"} :
          CountOf(SubSeq(idx.cols, 1, Len(cols)), c) = CountOf(cols, c)

\* the indexes of the list findIndexWithPrefix was given that have the prefix
Candidates == {findIndexes[k] : k \in {k \in 1..Len(findIndexes) : HasPrefixCols(findIndexes[k], findCols)}}

\* the candidates the spec prefers: those of exactly len(cols) columns if
\* there are any, those of the most columns otherwise
Preferred ==
    LET exact == {i \in Candidates : Len(i.cols) = Len(findCols)}
    IN  IF exact # {} THEN exact
        ELSE {i \in Candidates : \A j \in Candidates : Len(j.cols) <= Len(i.cols)}

\* C27: findIndexWithPrefix finds an index exactly when some index of the
\* list has the columns asked for as its first columns, in any order and
\* letter case; the index returned is a preferred candidate (exactly that many
\* columns if there is one, the most columns otherwise) and of these the one
\* with the smallest name, so it is the same for every order of the list
C27_FindsPreferredIndex ==
    findRet # <<>> =>
        /\ findRet[1].ok <=> Candidates # {}
        /\ findRet[1].ok =>
              /\ findRet[1].index \in Preferred
              /\ \A j \in Preferred : NameRank(findRet[1].index.name) <= NameRank(j.name)

\* an index of exactly the two columns asked for, in another order and
\* letter case, was returned though a longer index comes first in the list
C27_Witness ==
    /\ findRet # <<>>
    /\ findCols = <<"a", "b">>
    /\ Len(findIndexes) = 3
    /\ findIndexes[1] = Index("a_b", <<"A", "b", "c">>)
    /\ findIndexes[2] = Index("ix", <<"B", "a">>)
    /\ findIndexes[3] = Index("ib", <<"a", "b">>)
    /\ findRet[1] = [ok |-> TRUE, index |-> Index("ib", <<"a", "b">>)]


\* name is the name of a foreign key of the table or of a check, letter case
\* aside
NameInUse(name) ==
    \E n \in fkNames \cup checkNames : ToLowerName(n) = ToLowerName(name)

\* generateCheckName returned a name
NameReturned == genPc = "done"

\* C28: the name generateCheckName returns is, letter case aside, the name
\* of no foreign key of the table and of no check; it is chk_<hash8> when
\* that is unused and otherwise chk_<hash8>_k for the first k from 0 that is
\* unused
C28_ReturnsFirstUnusedName ==
    NameReturned =>
        /\ ~NameInUse(genName)
        /\ ~NameInUse(hashedName) => genName = hashedName
        /\ NameInUse(hashedName) =>
              \E k \in 0..(MaxSuffix + 1) :
                  /\ genName = Numbered(k)
                  /\ \A j \in 0..(k - 1) : NameInUse(Numbered(j))

\* C28: generateCheckName terminates, with a name or an error, for every set
\* of existing names, and a name it returns is the first unused one
C28_TerminatesWithFirstUnusedName ==
    /\ [](C28_ReturnsFirstUnusedName)
    /\ <>(genPc \in {"done", "error"})

\* every name up to chk_<hash8>_MaxSuffix was taken, some in capital letters
\* and some by foreign keys: the next number was returned
C28_Witness ==
    /\ NameReturned
    /\ genName = Numbered(MaxSuffix + 1)
    /\ Name("CHK_H", <<>>) \in fkNames
    /\ Name("chk_h", <<>>) \notin fkNames \cup checkNames
    /\ Name("chk_h", <<0>>) \in checkNames


\* the step is a call of RenameIndex or DropIndex that returns an error
IndexCallFails ==
    /\ nops' = nops + 1
    /\ last'.op \in {"RenameIndex", "DropIndex"}
    /\ last'.err # "nil"

\* C29: a RenameIndex or DropIndex call that returns an error leaves t.sch
\* with the indexes it had before the call, under the same names
C29_FailedIndexCallKeepsSchema ==
    [][IndexCallFails => tsch'.indexes = tsch.indexes]_vars

\* the first call was a DropIndex whose PutTable failed: the session root is
\* the old one and its table has the index, t.sch has lost it
C29_Witness ==
    /\ nops = 1
    /\ last.op = "DropIndex"
    /\ last.err = "PutTable"
    /\ root = last.before
    /\ \E i \in GetTable(root, tableName).table.sch.indexes : i \notin tsch.indexes


\* the last GetIndexes call returned indexes: they are those of the table in
\* the root the call worked on
GetIndexesMatchesRoot ==
    (cget # <<>> /\ cget[1].err = "nil") =>
        cget[1].indexes = GetTable(cget[1].root, tableName).table.sch.indexes

\* every entry of the index cache holds the indexes of the table in the root
\* it is keyed by
IndexCacheMatchesKeys ==
    \A k \in DOMAIN indexCache :
        indexCache[k] = GetTable(k.hash, tableName).table.sch.indexes

\* the step is a DropIndex or CreateIndex call that installs a new root
SchemaChangeInstalled ==
    /\ nops' = nops + 1
    /\ last'.op \in {"DropIndex", "CreateIndex"}
    /\ root' # root

====
